---- MODULE Spec2Model ----
(***************************************************************************)
(* A model of the MENU script interpreter: the command registry            *)
(* (core/command_registry.py), the script loader and the five build        *)
(* phases of MenuApp (core/menu_app.py), the command handlers the phases   *)
(* dispatch to (core/command_handlers.py), the tokenizer                   *)
(* (utils/helpers.py) and the API manager (core/api_manager.py).           *)
(*                                                                         *)
(* Text is modelled character by character: a Python str is a sequence of  *)
(* one-character strings, so that lower(), strip(), startswith() and the   *)
(* tokenizer are computed as the code computes them.  A CJK character is   *)
(* written as the name of its code point ("U8A2D").                        *)
(***************************************************************************)
EXTENDS Integers, Sequences, FiniteSets, TLC

VARIABLES
  handlers,      \* CommandRegistry.handlers : lowercased verb -> handler function
  aliases,       \* CommandRegistry.aliases  : lowercased alias -> lowercased verb
  registered,    \* history: lowercased verb -> the handler of its latest
                 \* registration and whether that replaced an earlier one
  got,           \* the last registry.get call made by a client and its result
  script,        \* the lines of the script file
  line_num,      \* load_script: number of lines read so far
  cmds,          \* MenuApp.cmds : the loaded instruction list
  pc,            \* position of the main thread
  idx,           \* position of the running for-loop in its list
  display,       \* environment: whether tk.Tk() can open a display
  app,           \* the Application State (MenuApp fields the handlers touch)
  log,           \* history: one entry per handler invocation / binding attempt
  apis,          \* APIManager.apis : name -> configuration
  response,      \* the last call_api made by a client and the value it returned
  requests,      \* history: the requests that call handed to the HTTP transport
  _lock,         \* APIManager._lock : the thread that holds it, or None
  threads,       \* thread -> the method it is in and its position in the method
  accesses,      \* history: the reads and writes of shared objects made by the
                 \* latest step, each with the thread that made it
  after_queue,   \* the callbacks given to root.after that the event loop has
                 \* not run yet
  returned       \* the last call of a helper function made by a client: its
                 \* arguments and what it gave

vars == <<handlers, aliases, registered, got, script, line_num, cmds, pc, idx, display,
          app, log, apis, response, requests, _lock, threads, accesses,
          after_queue, returned>>

regVars  == <<handlers, aliases, registered>>
loadVars == <<script, line_num, cmds>>
thrVars  == <<_lock, threads, accesses, after_queue>>
apiVars  == <<apis, response, requests, thrVars>>

\* Python's None
None == "None"

(***************************************************************************)
(* Strings                                                                 *)
(***************************************************************************)
UpperLetters == <<"A","B","C","D","E","F","G","H","I","J","K","L","M",
                  "N","O","P","Q","R","S","T","U","V","W","X","Y","Z">>
LowerLetters == <<"a","b","c","d","e","f","g","h","i","j","k","l","m",
                  "n","o","p","q","r","s","t","u","v","w","x","y","z">>

\* the lower-case form of every upper-case letter, and the converse
LowerOf == [c \in {UpperLetters[i] : i \in 1..Len(UpperLetters)} |->
             LowerLetters[CHOOSE i \in 1..Len(UpperLetters) : UpperLetters[i] = c]]
UpperOf == [c \in {LowerLetters[i] : i \in 1..Len(LowerLetters)} |->
             UpperLetters[CHOOSE i \in 1..Len(LowerLetters) : LowerLetters[i] = c]]

LowerChar(c) == IF c \in DOMAIN LowerOf THEN LowerOf[c] ELSE c

UpperChar(c) == IF c \in DOMAIN UpperOf THEN UpperOf[c] ELSE c

\* str.lower()
Lower(s) == [i \in 1..Len(s) |-> LowerChar(s[i])]

\* str.upper()
Upper(s) == [i \in 1..Len(s) |-> UpperChar(s[i])]

\* str.startswith(prefix)
StartsWith(s, prefix) ==
  /\ Len(s) >= Len(prefix)
  /\ \A i \in 1..Len(prefix) : s[i] = prefix[i]

\* s[n:]
DropFirst(s, n) == IF n >= Len(s) THEN <<>> ELSE SubSeq(s, n + 1, Len(s))

\* str.strip(chars): removes the characters of the set from both ends
RECURSIVE LStrip(_, _)
LStrip(s, chars) ==
  IF s # <<>> /\ Head(s) \in chars THEN LStrip(Tail(s), chars) ELSE s

RECURSIVE RStrip(_, _)
RStrip(s, chars) ==
  IF s # <<>> /\ s[Len(s)] \in chars
    THEN RStrip(SubSeq(s, 1, Len(s) - 1), chars)
    ELSE s

StripChars(s, chars) == RStrip(LStrip(s, chars), chars)

\* the whitespace of the modelled alphabet
Whitespace == {" "}

\* str.strip()
Strip(s) == StripChars(s, Whitespace)

\* ' '.join(words)
RECURSIVE JoinSp(_)
JoinSp(words) ==
  IF words = <<>> THEN <<>>
  ELSE IF Len(words) = 1 THEN words[1]
  ELSE words[1] \o <<" ">> \o JoinSp(Tail(words))

\* the sequences over S of length at most n
SeqUpTo(S, n) == UNION {[1..k -> S] : k \in 0..n}

(***************************************************************************)
(* The command registry (core/command_registry.py)                         *)
(***************************************************************************)
\* d[key] = value
DictSet(d, key, value) ==
  [k \in DOMAIN d \cup {key} |-> IF k = key THEN value ELSE d[k]]

\* del d[key]
DictDel(d, key) == [k \in DOMAIN d \ {key} |-> d[k]]

\* a variant of get that looks the name up in handlers only
getDirectOnly(hs, al, name) ==
  IF Lower(name) \in DOMAIN hs THEN hs[Lower(name)] ELSE None

\* a variant of register that stores func under the name as given
registerAsGiven(hs, name, func) == DictSet(hs, name, func)

\* registry.register(name)(func): stores func under the lowercased name
register(hs, name, func) == DictSet(hs, Lower(name), func)

\* registry.get(name): direct lookup first, then one alias hop; a handler is a
\* function object (truthy), an alias target is a str (falsy when empty)
get(hs, al, name) ==
  LET n == Lower(name) IN
  IF n \in DOMAIN hs THEN hs[n]
  ELSE IF n \in DOMAIN al /\ al[n] # <<>> /\ Lower(al[n]) \in DOMAIN hs
    THEN hs[Lower(al[n])]
  ELSE None

\* registry.add_alias(alias, actual_name)
add_alias(al, alias, actual_name) == DictSet(al, Lower(alias), Lower(actual_name))

\* registry.has_command(name)
has_command(hs, al, name) == Lower(name) \in DOMAIN hs \/ Lower(name) \in DOMAIN al

\* registry.remove_command(name): the registry after the call and the value returned
remove_command(hs, al, name) ==
  LET name_lower == Lower(name) IN
  IF name_lower \in DOMAIN hs
    THEN [handlers |-> DictDel(hs, name_lower), aliases |-> al, result |-> TRUE]
  ELSE IF name_lower \in DOMAIN al
    THEN [handlers |-> hs, aliases |-> DictDel(al, name_lower), result |-> TRUE]
  ELSE [handlers |-> hs, aliases |-> al, result |-> FALSE]

\* no client has called registry.get
NoCall == [called |-> FALSE, name |-> <<>>, result |-> None]

\* the registration history of a registry whose verbs were registered once each
RegisteredBy(hs) == [k \in DOMAIN hs |-> [func |-> hs[k], replaced |-> FALSE]]

\* the @registry.register decorators of core/command_handlers.py, in import order
RegisteredAtImport ==
  << <<<<"c", "l", "e", "a", "r">>, "cmd_clear">>,
     <<<<"w", "i", "n", "d", "o", "w">>, "cmd_window">>,
     <<<<"s", "t", "y", "l", "e">>, "cmd_style">>,
     <<<<"c", "o", "n", "t", "r", "o", "l">>, "cmd_control">>,
     <<<<"g", "r", "i", "d", "-", "s", "e", "t", "u", "p">>, "cmd_grid_setup">>,
     <<<<"l", "a", "y", "o", "u", "t", "-", "g", "r", "i", "d">>, "cmd_layout_grid">>,
     <<<<"g", "r", "i", "d", "-", "p", "o", "s">>, "cmd_grid_position">>,
     <<<<"r", "e", "l", "a", "t", "i", "v", "e">>, "cmd_relative_position">>,
     <<<<"b", "i", "n", "d", "i", "n", "g">>, "cmd_binding">>,
     <<<<"e", "x", "e", "c">>, "cmd_exec">>,
     <<<<"a", "p", "i", "-", "s", "e", "t">>, "handle_api_setup">>,
     <<<<"a", "p", "i", "-", "c", "a", "l", "l">>, "handle_api_call">>,
     <<<<"U986F", "U793A", "U5340", "U57DF">>, "cmd_display_area">>,
     <<<<"U986F", "U793A", "U5167", "U5BB9">>, "cmd_display_content">>,
     <<<<"U6E05", "U9664", "U986F", "U793A">>, "cmd_clear_display">>,
     <<<<"U8A2D", "U5B9A", "U8A9E", "U8A00">>, "cmd_set_language">>,
     <<<<"U986F", "U793A", "U6587", "U5B57">>, "cmd_display_text">>,
     <<<<"U751F", "U6210", "U4EE3", "U78BC">>, "cmd_generate_code">>,
     <<<<"U57F7", "U884C", "U6307", "U4EE4">>, "cmd_execute_single_command">>,
     <<<<"p", "o", "p", "u", "p", "-", "w", "i", "n", "d", "o", "w">>, "cmd_popup_window">>,
     <<<<"p", "o", "p", "u", "p", "-", "c", "o", "n", "t", "e", "n", "t">>, "cmd_popup_content">>,
     <<<<"p", "o", "p", "u", "p", "-", "s", "e", "n", "d", "-", "d", "a", "t", "a">>, "cmd_popup_send_data">>,
     <<<<"p", "o", "p", "u", "p", "-", "c", "l", "o", "s", "e">>, "cmd_popup_close">>,
     <<<<"p", "o", "p", "u", "p", "-", "l", "i", "s", "t">>, "cmd_popup_list">>,
     <<<<"w", "i", "n", "d", "o", "w", "-", "m", "a", "x", "i", "m", "i", "z", "e">>, "cmd_window_maximize">>,
     <<<<"w", "i", "n", "d", "o", "w", "-", "m", "i", "n", "i", "m", "i", "z", "e">>, "cmd_window_minimize">>,
     <<<<"w", "i", "n", "d", "o", "w", "-", "h", "i", "d", "e">>, "cmd_window_hide">>,
     <<<<"w", "i", "n", "d", "o", "w", "-", "s", "h", "o", "w">>, "cmd_window_show">>,
     <<<<"s", "h", "o", "w">>, "cmd_show">>,
     <<<<"e", "m", "o", "j", "i", "-", "p", "i", "c", "k", "e", "r">>, "cmd_emoji_picker">>,
     <<<<"e", "m", "o", "j", "i", "-", "s", "h", "o", "w">>, "cmd_emoji_show">>,
     <<<<"e", "m", "o", "j", "i", "-", "s", "e", "t">>, "cmd_emoji_set">>,
     <<<<"s", "h", "o", "w", "_", "w", "i", "n", "d", "o", "w", "_", "i", "n", "f", "o">>, "cmd_show_window_info">>,
     <<<<"w", "o", "r", "k", "s", "p", "a", "c", "e">>, "cmd_workspace">>,
     <<<<"w", "o", "r", "k", "s", "p", "a", "c", "e", "-", "a", "d", "d">>, "cmd_workspace_add">>,
     <<<<"s", "h", "o", "w", "_", "m", "e", "s", "s", "a", "g", "e">>, "cmd_show_message">>,
     <<<<"g", "e", "t">>, "cmd_get">> >>

\* the registry once core/command_handlers.py is imported
RECURSIVE RegisterAll(_, _)
RegisterAll(hs, regs) ==
  IF regs = <<>> THEN hs
  ELSE RegisterAll(register(hs, regs[1][1], regs[1][2]), Tail(regs))

StartupHandlers == RegisterAll(<<>>, RegisteredAtImport)

\* utils/constants.py COMMAND_ALIASES, as (key, value) pairs
AliasTable ==
  << <<<<"w", "i", "n">>, <<"w", "i", "n", "d", "o", "w">>>>,
     <<<<"c", "t", "r", "l">>, <<"c", "o", "n", "t", "r", "o", "l">>>>,
     <<<<"a", "p", "i", "-", "s", "e", "t">>, <<"A", "P", "I", "U8A2D", "U5B9A">>>>,
     <<<<"a", "p", "i", "-", "c", "a", "l", "l">>, <<"A", "P", "I", "U547C", "U53EB">>>>,
     <<<<"a", "p", "i">>, <<"A", "P", "I", "U8A2D", "U5B9A">>>>,
     <<<<"a", "p", "i", "-", "p", "r", "e", "s", "e", "t">>, <<"A", "P", "I", "U9810", "U8A2D">>>>,
     <<<<"a", "p", "i", "-", "c", "a", "l", "l", "-", "p", "r", "e", "s", "e", "t">>, <<"A", "P", "I", "U547C", "U53EB", "U9810", "U8A2D">>>>,
     <<<<"d", "i", "s", "p", "l", "a", "y", "-", "a", "r", "e", "a">>, <<"U986F", "U793A", "U5340", "U57DF">>>>,
     <<<<"d", "i", "s", "p", "l", "a", "y", "-", "c", "o", "n", "t", "e", "n", "t">>, <<"U986F", "U793A", "U5167", "U5BB9">>>>,
     <<<<"d", "i", "s", "p", "l", "a", "y", "-", "t", "e", "x", "t">>, <<"U986F", "U793A", "U6587", "U5B57">>>>,
     <<<<"s", "e", "t", "-", "l", "a", "n", "g", "u", "a", "g", "e">>, <<"U8A2D", "U5B9A", "U8A9E", "U8A00">>>>,
     <<<<"g", "e", "n", "e", "r", "a", "t", "e", "-", "c", "o", "d", "e">>, <<"U751F", "U6210", "U4EE3", "U78BC">>>>,
     <<<<"c", "l", "e", "a", "r", "-", "d", "i", "s", "p", "l", "a", "y">>, <<"U6E05", "U9664", "U986F", "U793A">>>>,
     <<<<"a", "d", "a", "p", "t", "i", "v", "e">>, <<"U81EA", "U9069", "U61C9">>>>,
     <<<<"r", "e", "l", "a", "t", "i", "v", "e">>, <<"U76F8", "U5C0D", "U4F4D", "U7F6E">>>>,
     <<<<"g", "r", "i", "d", "-", "s", "e", "t", "u", "p">>, <<"U7DB2", "U683C", "U4F48", "U5C40">>>>,
     <<<<"g", "r", "i", "d", "-", "p", "o", "s">>, <<"U7DB2", "U683C", "U4F4D", "U7F6E">>>>,
     <<<<"l", "a", "y", "o", "u", "t", "-", "g", "r", "i", "d">>, <<"L", "a", "y", "o", "u", "t", "G", "r", "i", "d">>>>,
     <<<<"g", "r", "i", "d", "-", "l", "a", "y", "o", "u", "t">>, <<"U7DB2", "U683C", "U4F48", "U5C40">>>> >>


COMMAND_ALIASES ==
  [k \in {AliasTable[i][1] : i \in 1..Len(AliasTable)} |->
     AliasTable[CHOOSE i \in 1..Len(AliasTable) : AliasTable[i][1] = k][2]]

(***************************************************************************)
(* The tokenizer (utils/helpers.py parse_command_line)                     *)
(***************************************************************************)
Quotes == {"\"", "'"}

\* shlex.split(line) in POSIX mode with whitespace_split and no comment
\* characters, for lines without a backslash: the scanner's state st is "ws"
\* (between tokens), "a" (inside a word) or the quote character that is open;
\* quoted records that the current token had a quoted part.  The result is
\* [ok |-> TRUE, toks |-> tokens], or [ok |-> FALSE] for "No closing quotation".
RECURSIVE ShlexScan(_, _, _, _, _)
ShlexScan(line, i, st, tok, out) ==
  IF i > Len(line) THEN
    IF st \in Quotes THEN [ok |-> FALSE, toks |-> <<>>]
    ELSE IF st = "a" THEN [ok |-> TRUE, toks |-> Append(out, tok)]
    ELSE [ok |-> TRUE, toks |-> out]
  ELSE
    LET c == line[i] IN
    IF st = "ws" THEN
      IF c \in Whitespace THEN ShlexScan(line, i + 1, "ws", <<>>, out)
      ELSE IF c \in Quotes THEN ShlexScan(line, i + 1, c, <<>>, out)
      ELSE ShlexScan(line, i + 1, "a", <<c>>, out)
    ELSE IF st \in Quotes THEN
      IF c = st THEN ShlexScan(line, i + 1, "a", tok, out)
      ELSE ShlexScan(line, i + 1, st, Append(tok, c), out)
    ELSE
      IF c \in Whitespace THEN ShlexScan(line, i + 1, "ws", <<>>, Append(out, tok))
      ELSE IF c \in Quotes THEN ShlexScan(line, i + 1, c, tok, out)
      ELSE ShlexScan(line, i + 1, "a", Append(tok, c), out)

shlex_split(line) == ShlexScan(line, 1, "ws", <<>>, <<>>)

\* the character-by-character scan parse_command_line falls back to when
\* shlex raises ValueError
RECURSIVE FallbackScan(_, _, _, _, _, _)
FallbackScan(line, i, in_quotes, quote_char, current_token, tokens) ==
  IF i > Len(line) THEN
    IF current_token # <<>> THEN Append(tokens, current_token) ELSE tokens
  ELSE
    LET char == line[i] IN
    IF char \in Quotes /\ ~in_quotes THEN
      FallbackScan(line, i + 1, TRUE, char, Append(current_token, char), tokens)
    ELSE IF in_quotes /\ char = quote_char THEN
      FallbackScan(line, i + 1, FALSE, quote_char, <<>>,
                   Append(tokens, StripChars(Append(current_token, char), {quote_char})))
    ELSE IF char = " " /\ ~in_quotes THEN
      IF current_token # <<>>
        THEN FallbackScan(line, i + 1, in_quotes, quote_char, <<>>,
                          Append(tokens, current_token))
        ELSE FallbackScan(line, i + 1, in_quotes, quote_char, <<>>, tokens)
    ELSE
      FallbackScan(line, i + 1, in_quotes, quote_char, Append(current_token, char), tokens)

MenuPrefix == <<"m", "e", "n", "u", " ">>

parse_command_line(line0) ==
  LET line == Strip(IF StartsWith(line0, MenuPrefix)
                      THEN DropFirst(line0, Len(MenuPrefix)) ELSE line0)
  IN IF line = <<>> THEN <<>>
     ELSE IF shlex_split(line).ok THEN shlex_split(line).toks
     ELSE FallbackScan(line, 1, FALSE, "", <<>>, <<>>)

(***************************************************************************)
(* The script loader (core/menu_app.py MenuApp.load_script)                *)
(***************************************************************************)
V_show == <<"s", "h", "o", "w">>

\* a variant of the iteration that skips the show line and goes on collecting
LoadLineNoBreak(acc, raw) ==
  LET line == Strip(raw)
      toks == parse_command_line(line)
  IN IF ~StartsWith(line, MenuPrefix) \/ toks = <<>> THEN acc
     ELSE IF Lower(toks[1]) \in DOMAIN COMMAND_ALIASES
       THEN [acc EXCEPT !.cmds = Append(acc.cmds, <<COMMAND_ALIASES[Lower(toks[1])]>> \o Tail(toks))]
     ELSE IF Lower(toks[1]) = V_show THEN acc
     ELSE [acc EXCEPT !.cmds = Append(acc.cmds, toks)]

\* one iteration of the for loop over the file's lines: acc.cmds is the list
\* built so far, acc.stopped whether the loop has hit `break`
LoadLine(acc, raw) ==
  LET line == Strip(raw) IN
  IF line = <<>> \/ ~(StartsWith(line, MenuPrefix) \/ StartsWith(line, <<"#">>)) THEN acc
  ELSE IF StartsWith(line, <<"#">>) THEN acc
  ELSE
    LET toks == parse_command_line(line) IN
    IF toks = <<>> THEN acc
    ELSE
      LET cmd0  == Lower(toks[1])
          isAl  == cmd0 \in DOMAIN COMMAND_ALIASES
          cmd   == IF isAl THEN COMMAND_ALIASES[cmd0] ELSE cmd0
          toks2 == IF isAl THEN <<cmd>> \o Tail(toks) ELSE toks
      IN IF cmd = V_show THEN [acc EXCEPT !.stopped = TRUE]
         ELSE [acc EXCEPT !.cmds = Append(acc.cmds, toks2)]

\* the whole loop, as MenuApp.__init__ runs it
RECURSIVE LoadFrom(_, _, _)
LoadFrom(acc, lines, i) ==
  IF i > Len(lines) \/ acc.stopped THEN acc
  ELSE LoadFrom(LoadLine(acc, lines[i]), lines, i + 1)

load_script(lines) == LoadFrom([cmds |-> <<>>, stopped |-> FALSE], lines, 1).cmds

(***************************************************************************)
(* The command handlers (core/command_handlers.py)                         *)
(***************************************************************************)
\* utils/helpers.py parse_parameters: key=value tokens to a dict
\* a variant that splits a token at its last '='
EqIndexLast(param) ==
  IF \E i \in 1..Len(param) : param[i] = "="
    THEN CHOOSE i \in 1..Len(param) :
           param[i] = "=" /\ \A j \in (i + 1)..Len(param) : param[j] # "="
    ELSE 0

EqIndex(param) ==
  IF \E i \in 1..Len(param) : param[i] = "="
    THEN CHOOSE i \in 1..Len(param) :
           param[i] = "=" /\ \A j \in 1..(i - 1) : param[j] # "="
    ELSE 0

RECURSIVE parse_parameters(_)
parse_parameters(param_list) ==
  IF param_list = <<>> THEN <<>>
  ELSE
    LET n     == Len(param_list)
        param == param_list[n]
        rest  == parse_parameters(SubSeq(param_list, 1, n - 1))
        e     == EqIndex(param)
    IN IF e = 0 THEN rest
       ELSE DictSet(rest, Strip(SubSeq(param, 1, e - 1)),
                    StripChars(DropFirst(param, e), Quotes))

\* utils/constants.py SUPPORTED_LANGUAGES and DEFAULT_LANGUAGE
SUPPORTED_LANGUAGES ==
  [EN |-> <<"e", "n">>, ZH_TW |-> <<"z", "h", "-", "T", "W">>, ZH_CN |-> <<"z", "h", "-", "C", "N">>]

DEFAULT_LANGUAGE == SUPPORTED_LANGUAGES.ZH_TW

\* LanguageManager.translations, for the keys ready and error
translations ==
  (SUPPORTED_LANGUAGES.EN :> (<<"r", "e", "a", "d", "y">> :> <<"R", "e", "a", "d", "y">>
                              @@ <<"e", "r", "r", "o", "r">> :> <<"E", "r", "r", "o", "r">>))
  @@ (SUPPORTED_LANGUAGES.ZH_TW :> (<<"r", "e", "a", "d", "y">> :> <<"U5C31", "U7DD2">>
                                    @@ <<"e", "r", "r", "o", "r">> :> <<"U932F", "U8AA4">>))
  @@ (SUPPORTED_LANGUAGES.ZH_CN :> (<<"r", "e", "a", "d", "y">> :> <<"U5C31", "U7EEA">>
                                    @@ <<"e", "r", "r", "o", "r">> :> <<"U9519", "U8BEF">>))

\* LanguageManager.set_language(lang_code) on a manager whose current
\* language is current_lang: the value returned and the language afterwards
set_language(current_lang, lang_code) ==
  IF lang_code \in DOMAIN translations
    THEN [result |-> TRUE, current_lang |-> lang_code]
    ELSE [result |-> FALSE, current_lang |-> current_lang]

\* LanguageManager.get_text(key) on a manager whose current language is
\* current_lang
LanguageManager_get_text(current_lang, key) ==
  IF current_lang \in DOMAIN translations /\ key \in DOMAIN translations[current_lang]
    THEN translations[current_lang][key]
    ELSE key

\* the module-level instance of core/language_manager.py; nothing the
\* handlers call sets its language
language_manager == [current_lang |-> DEFAULT_LANGUAGE]

\* the module-level get_text(key) the handlers import
get_text(key) == LanguageManager_get_text(language_manager.current_lang, key)

\* the Application State a new MenuApp holds (MenuApp.__init__); a dict with
\* insertion order that matters (exec_map) is a sequence of entries
NewApp ==
  [root          |-> FALSE,   \* whether app.root is a window (None otherwise)
   controls      |-> <<>>,    \* name -> widget
   styles        |-> <<>>,    \* class name -> attributes
   exec_map      |-> <<>>,    \* entries [btn, templates], in insertion order
   binding_list  |-> <<>>,    \* <<widget name, event, action>>
   display_areas |-> <<>>,    \* name -> display area
   popup_windows |-> <<>>,    \* name -> Toplevel id
   toplevels     |-> {},      \* the Toplevel windows that exist (not destroyed)
   created       |-> 0,       \* number of Toplevel windows created so far
   grid_cfg      |-> <<>>,    \* None, or <<rows, cols, pad>>
   workspaces    |-> <<>>,    \* name -> frame (the attribute is set on first use)
   emoji_pickers |-> <<>>,    \* name -> picker (the attribute is set on first use)
   language      |-> DEFAULT_LANGUAGE,   \* app.language.current_lang
   attrs         |-> <<>>]    \* attributes set on the app after construction

NoCallback == [kind |-> "none", templates |-> <<>>, action |-> <<>>]

Widget == [button |-> <<"b", "u", "t", "t", "o", "n">>,
           entry |-> <<"e", "n", "t", "r", "y">>,
           edit |-> <<"e", "d", "i", "t">>,
           text |-> <<"t", "e", "x", "t">>,
           value |-> <<"v", "a", "l", "u", "e">>]

\* _create_widget: the toolkit class chosen for a control type
_create_widget(ctrl_type) ==
  LET t == Lower(ctrl_type) IN
  [class   |-> IF t = Widget.button THEN "Button"
               ELSE IF t \in {Widget.entry, Widget.edit} THEN "Entry"
               ELSE "Label",
   text    |-> <<>>,
   value   |-> <<>>,
   command |-> NoCallback,   \* the widget's command option
   binds   |-> <<>>]         \* event sequence -> bound callback

\* what a call of a handler gives: the state it leaves and whether an
\* exception left the handler
Returned(a) == [app |-> a, raised |-> FALSE]
Raised(a)   == [app |-> a, raised |-> TRUE]

cmd_clear(a, args) ==
  Returned([a EXCEPT !.controls = <<>>, !.styles = <<>>, !.exec_map = <<>>,
                     !.binding_list = <<>>, !.display_areas = <<>>])

\* the decimal digits
DigitChars == {"0", "1", "2", "3", "4", "5", "6", "7", "8", "9"}

\* int(text) for a text of digits
RECURSIVE IntOf(_)
IntOf(text) ==
  IF text = <<>> THEN 0
  ELSE 10 * IntOf(SubSeq(text, 1, Len(text) - 1))
       + (CHOOSE n \in 0..9 :
            <<"0", "1", "2", "3", "4", "5", "6", "7", "8", "9">>[n + 1] = text[Len(text)])

\* whether int(text) is defined, for a text with no blanks: digits after an
\* optional sign
IsInt(text) ==
  LET digits == IF text # <<>> /\ Head(text) \in {"-", "+"} THEN Tail(text) ELSE text
  IN digits # <<>> /\ \A i \in DOMAIN digits : digits[i] \in DigitChars

SignedIntOf(text) ==
  IF Head(text) = "-" THEN 0 - IntOf(Tail(text))
  ELSE IF Head(text) = "+" THEN IntOf(Tail(text))
  ELSE IntOf(text)

DEFAULT_WINDOW_SIZE == <<800, 600>>

\* parse_size_string(f"{width}x{height}"): the two numbers, the default
\* size when the text does not split at 'x' into two numbers
parse_size_string(width, height) ==
  IF IsInt(width) /\ IsInt(height)
    THEN <<SignedIntOf(width), SignedIntOf(height)>>
    ELSE DEFAULT_WINDOW_SIZE

\* root.geometry(f"{w}x{h}"): Tk reads a leading sign as an offset and
\* rejects the text as a bad geometry specifier
GeometryFails(size) == size[1] < 0 \/ size[2] < 0

\* tk.Tk() succeeds exactly when a display is available; when tk.Tk(), title
\* or geometry raises, the handler sets the root to None and returns
cmd_window(a, args, disp) ==
  IF Len(args) < 4 THEN Returned(a)
  ELSE IF disp /\ ~GeometryFails(parse_size_string(args[2], args[3]))
    THEN Returned([a EXCEPT !.root = TRUE])
    ELSE Returned([a EXCEPT !.root = FALSE])

cmd_style(a, args) ==
  IF Len(args) < 1 THEN Raised(a)      \* TypeError: class_name is missing
  ELSE Returned([a EXCEPT !.styles =
                   DictSet(a.styles, args[1], parse_parameters(Tail(args)))])

\* geometry (x, y, w, h, grid, relative placement) is not part of the state
cmd_control(a, args) ==
  IF Len(args) < 2 THEN Raised(a)      \* TypeError: ctrl_type / name missing
  ELSE IF ~a.root THEN Returned(a)
  ELSE Returned([a EXCEPT !.controls =
                   DictSet(a.controls, args[2], _create_widget(args[1]))])

cmd_binding(a, args) ==
  IF Len(args) < 3 THEN Returned(a)
  ELSE Returned([a EXCEPT !.binding_list =
                   Append(a.binding_list,
                          <<args[1], args[2], JoinSp(SubSeq(args, 3, Len(args)))>>)])

\* the position of button_name in exec_map, 0 when it has no entry
ExecIndex(em, button_name) ==
  IF \E i \in 1..Len(em) : em[i].btn = button_name
    THEN CHOOSE i \in 1..Len(em) : em[i].btn = button_name
    ELSE 0

cmd_exec(a, args) ==
  IF Len(args) < 1 THEN Raised(a)      \* TypeError: button_name is missing
  ELSE
    LET i == ExecIndex(a.exec_map, args[1]) IN
    IF i = 0
      THEN Returned([a EXCEPT !.exec_map =
                       Append(a.exec_map, [btn |-> args[1], templates |-> Tail(args)])])
      ELSE Returned([a EXCEPT !.exec_map[i].templates = @ \o Tail(args)])

\* size, offsets and the constraint to the parent window are geometry only
cmd_popup_window(a, args) ==
  IF Len(args) < 2 THEN Raised(a)      \* TypeError: name / title missing
  ELSE IF ~a.root THEN Returned(a)
  ELSE Returned([a EXCEPT !.popup_windows = DictSet(a.popup_windows, args[1], a.created + 1),
                          !.toplevels = @ \cup {a.created + 1},
                          !.created = @ + 1])

\* the widgets it creates live in the popup and are not stored in controls
cmd_popup_content(a, args) ==
  IF Len(args) < 1 THEN Raised(a)      \* TypeError: popup_name is missing
  ELSE Returned(a)

\* the first '.' of target, 0 when it has none
DotIndex(target) ==
  IF \E i \in 1..Len(target) : target[i] = "."
    THEN CHOOSE i \in 1..Len(target) :
           target[i] = "." /\ \A j \in 1..(i - 1) : target[j] # "."
    ELSE 0

\* the control update popup-send-data makes before it closes the popup
SendDataUpdate(controls, data, target) ==
  LET d == DotIndex(target) IN
  IF d = 0 THEN
    IF target \in DOMAIN controls
      THEN [controls EXCEPT ![target].text = data]
      ELSE controls
  ELSE
    LET widget_name == SubSeq(target, 1, d - 1)
        attr        == DropFirst(target, d)
    IN IF widget_name \notin DOMAIN controls THEN controls
       ELSE IF attr = Widget.text THEN [controls EXCEPT ![widget_name].text = data]
       ELSE IF attr = Widget.value /\ controls[widget_name].class = "Entry"
         THEN [controls EXCEPT ![widget_name].value = data]
       ELSE controls

cmd_popup_send_data(a, args) ==
  IF Len(args) # 3 THEN Raised(a)      \* TypeError: exactly popup_name, data, target
  ELSE
    LET a1 == [a EXCEPT !.controls = SendDataUpdate(a.controls, args[2], args[3])] IN
    IF args[1] \in DOMAIN a1.popup_windows
      THEN Returned([a1 EXCEPT !.toplevels = @ \ {a1.popup_windows[args[1]]},
                               !.popup_windows = DictDel(@, args[1])])
      ELSE Returned(a1)

\* cmd_popup_close(app, popup_name)
cmd_popup_close(a, args) ==
  IF Len(args) # 1 THEN Raised(a)      \* TypeError: exactly popup_name
  ELSE IF args[1] \in DOMAIN a.popup_windows
    THEN Returned([a EXCEPT !.toplevels = @ \ {a.popup_windows[args[1]]},
                            !.popup_windows = DictDel(@, args[1])])
  ELSE Returned(a)

\* cmd_set_language(app, lang_code): app.language.set_language(lang_code)
cmd_set_language(a, args) ==
  IF Len(args) # 1 THEN Raised(a)      \* TypeError: exactly lang_code
  ELSE Returned([a EXCEPT !.language = set_language(a.language, args[1]).current_lang])

\* cmd_display_text(app, key, target, *props): a display area takes the
\* text as its content, which it holds itself; else the widget's text is set
cmd_display_text(a, args) ==
  IF Len(args) < 2 THEN Raised(a)      \* TypeError: key / target missing
  ELSE
    LET text == get_text(args[1]) IN
    IF args[2] \in DOMAIN a.display_areas THEN Returned(a)
    ELSE IF args[2] \in DOMAIN a.controls
      THEN Returned([a EXCEPT !.controls[args[2]].text = text])
    ELSE Returned(a)

\* the text of a parameter, default when the key is absent
ParamOr(params, key, default) == IF key \in DOMAIN params THEN params[key] ELSE default

\* DisplayArea(app.root, area_name, int(x), int(y), int(width), int(height),
\* params): int() of a text that is no number is an error the handler catches
cmd_display_area(a, args) ==
  IF Len(args) < 5 THEN Raised(a)      \* TypeError: area_name .. height missing
  ELSE IF ~a.root THEN Returned(a)
  ELSE IF \E i \in 2..5 : ~IsInt(args[i]) THEN Returned(a)
  ELSE Returned([a EXCEPT !.display_areas = DictSet(a.display_areas, args[1], "DisplayArea")])

cmd_emoji_picker(a, args) ==
  IF Len(args) < 5 THEN Raised(a)      \* TypeError: name .. height missing
  ELSE IF ~a.root THEN Returned(a)
  ELSE IF \E i \in 2..5 : ~IsInt(args[i]) THEN Returned(a)
  ELSE Returned([a EXCEPT !.emoji_pickers = DictSet(a.emoji_pickers, args[1], "EmojiPicker")])

\* absolute placement (no rel* parameter): int() of x, y, w, h
cmd_workspace(a, args) ==
  IF Len(args) < 1 THEN Raised(a)      \* TypeError: name is missing
  ELSE LET params == parse_parameters(args)
           Geo(k, d) == ParamOr(params, <<k>>, d)
       IN IF ~a.root THEN Returned(a)
          ELSE IF \E t \in {Geo("x", <<"0">>), Geo("y", <<"0">>),
                             Geo("w", <<"2", "0", "0">>), Geo("h", <<"1", "5", "0">>)} : ~IsInt(t)
            THEN Returned(a)
          ELSE Returned([a EXCEPT !.workspaces = DictSet(a.workspaces, args[1], "Frame")])

\* the control is created in the frame of the workspace: the handler looks
\* the workspace up and does not look at the root
cmd_workspace_add(a, args) ==
  IF Len(args) < 3 THEN Raised(a)      \* TypeError: workspace_name .. ctrl_name missing
  ELSE LET params == parse_parameters(args)
           Geo(k) == ParamOr(params, <<k>>, <<"0">>)
       IN IF args[1] \notin DOMAIN a.workspaces THEN Returned(a)
          ELSE IF \E t \in {Geo("x"), Geo("y"), Geo("w"), Geo("h")} : ~IsInt(t)
            THEN Returned(a)
          ELSE Returned([a EXCEPT !.controls =
                           DictSet(a.controls, args[3], _create_widget(args[2]))])

\* cmd_grid_setup: the key=value arguments, a value in double quotes without
\* them, a later key over an earlier one
RECURSIVE GridParams(_)
GridParams(args) ==
  IF args = <<>> THEN <<>>
  ELSE LET rest  == GridParams(SubSeq(args, 1, Len(args) - 1))
           arg   == args[Len(args)]
           e     == EqIndex(arg)
           value == DropFirst(arg, e)
       IN IF e = 0 THEN rest
          ELSE DictSet(rest, SubSeq(arg, 1, e - 1),
                       IF value # <<>> /\ Head(value) = "\"" /\ value[Len(value)] = "\""
                         THEN SubSeq(value, 2, Len(value) - 1)
                         ELSE value)

\* the grid configuration is stored before the root is looked at; int() of
\* a text that is no number is an error the handler catches
cmd_grid_setup(a, args) ==
  LET params == GridParams(args)
      rows   == IF <<"r", "o", "w", "s">> \in DOMAIN params
                  THEN params[<<"r", "o", "w", "s">>] ELSE <<"4">>
      cols   == IF <<"c", "o", "l", "s">> \in DOMAIN params
                  THEN params[<<"c", "o", "l", "s">>] ELSE <<"2">>
  IN IF IsInt(rows) /\ IsInt(cols)
       THEN Returned([a EXCEPT !.grid_cfg = <<SignedIntOf(rows), SignedIntOf(cols), 5>>])
       ELSE Returned(a)

Arrow == <<"-", ">">>

\* extract_target_from_args(args): the target is None (<<>>) without an
\* arrow that is followed by a token
extract_target_from_args(args) ==
  LET arrows == {i \in DOMAIN args : args[i] = Arrow} IN
  IF arrows = {} THEN [remaining |-> args, target |-> <<>>]
  ELSE LET k == CHOOSE i \in arrows : \A j \in arrows : i <= j IN
       IF k < Len(args) THEN [remaining |-> SubSeq(args, 1, k - 1), target |-> args[k + 1]]
       ELSE [remaining |-> args, target |-> <<>>]

\* handle_api_call(app, btn_name, api_name, method, path, *args): on_click
\* becomes the command of the button; config(command=...) is an error the
\* handler catches on a widget that has no such option
handle_api_call(a, args) ==
  IF Len(args) < 4 THEN Raised(a)      \* TypeError: a positional argument is missing
  ELSE
    LET ex == extract_target_from_args(SubSeq(args, 5, Len(args)))
        on_click == [kind |-> "api_call",
                     templates |-> <<args[2], args[3], args[4], JoinSp(ex.remaining)>>,
                     action |-> ex.target]
    IN IF args[1] \notin DOMAIN a.controls THEN Returned(a)
       ELSE IF a.controls[args[1]].class # "Button" THEN Returned(a)
       ELSE Returned([a EXCEPT !.controls[args[1]].command = on_click])

\* handler(app, *args) for the handler functions the model covers; the
\* remaining handlers are never reached by the scripts of the model
CallHandler(func, a, args, disp) ==
  CASE func = "cmd_clear"           -> cmd_clear(a, args)
    [] func = "cmd_window"          -> cmd_window(a, args, disp)
    [] func = "cmd_style"           -> cmd_style(a, args)
    [] func = "cmd_control"         -> cmd_control(a, args)
    [] func = "cmd_grid_setup"      -> cmd_grid_setup(a, args)
    [] func = "cmd_binding"         -> cmd_binding(a, args)
    [] func = "cmd_exec"            -> cmd_exec(a, args)
    [] func = "cmd_popup_window"    -> cmd_popup_window(a, args)
    [] func = "cmd_popup_content"   -> cmd_popup_content(a, args)
    [] func = "cmd_popup_send_data" -> cmd_popup_send_data(a, args)
    [] func = "cmd_popup_close"     -> cmd_popup_close(a, args)
    [] func = "cmd_set_language"    -> cmd_set_language(a, args)
    [] func = "cmd_display_text"    -> cmd_display_text(a, args)
    [] func = "cmd_display_area"    -> cmd_display_area(a, args)
    [] func = "cmd_emoji_picker"    -> cmd_emoji_picker(a, args)
    [] func = "cmd_workspace"       -> cmd_workspace(a, args)
    [] func = "cmd_workspace_add"   -> cmd_workspace_add(a, args)
    [] func = "handle_api_call"     -> handle_api_call(a, args)
    [] OTHER                        -> Returned(a)

(***************************************************************************)
(* The execution engine (core/menu_app.py MenuApp.build_ui)                *)
(***************************************************************************)
V_popup_window    == <<"p", "o", "p", "u", "p", "-", "w", "i", "n", "d", "o", "w">>
V_popup_content   == <<"p", "o", "p", "u", "p", "-", "c", "o", "n", "t", "e", "n", "t">>
V_popup_send_data == <<"p", "o", "p", "u", "p", "-", "s", "e", "n", "d", "-", "d", "a", "t", "a">>

\* a variant that populates the popups before creating them
PopupOrderContentFirst == <<V_popup_content, V_popup_window, V_popup_send_data>>

\* the verbs phase 1 skips, in the order phase 3 runs their groups
PopupOrder == <<V_popup_window, V_popup_content, V_popup_send_data>>
PopupVerbs == {PopupOrder[i] : i \in 1..Len(PopupOrder)}

\* pc while the group of PopupOrder[k] runs
PopupPc == <<"popup-window", "popup-content", "popup-send-data">>
PopupPhases == {PopupPc[i] : i \in 1..Len(PopupPc)}
PhaseNo(p) == CHOOSE k \in 1..Len(PopupPc) : PopupPc[k] = p

\* popup_commands[verb]: the positions in cmds of the instructions of the verb,
\* in script order
RECURSIVE GroupFrom(_, _, _)
GroupFrom(list, verb, i) ==
  IF i > Len(list) THEN <<>>
  ELSE IF Lower(list[i][1]) = verb THEN <<i>> \o GroupFrom(list, verb, i + 1)
  ELSE GroupFrom(list, verb, i + 1)

PopupGroup(list, verb) == GroupFrom(list, verb, 1)

\* one iteration of the loop of _process_basic_commands; catch tells whether
\* the try/except around the handler call is there
BasicIteration(catch) ==
  /\ pc = "basic"
  /\ idx <= Len(cmds)
  /\ LET toks    == cmds[idx]
         cmd     == Lower(toks[1])
         handler == get(handlers, aliases, cmd)
         r       == CallHandler(handler, app, Tail(toks), display)
     IN IF cmd \in PopupVerbs \/ handler = None
          THEN /\ UNCHANGED <<app, log>>
               /\ pc' = pc /\ idx' = idx + 1
          ELSE /\ app' = r.app
               /\ log' = Append(log, [phase |-> "basic", i |-> idx,
                                      func |-> handler, raised |-> r.raised])
               /\ IF r.raised /\ ~catch
                    THEN pc' = "failed" /\ idx' = idx
                    ELSE pc' = pc /\ idx' = idx + 1
  /\ UNCHANGED <<regVars, got, returned, loadVars, display, apiVars>>

ProcessBasicNoCatch == BasicIteration(FALSE)

ProcessBasic == BasicIteration(TRUE)

\* the loop of _process_basic_commands is over: build_ui goes on to phase 2
EndBasic ==
  /\ pc = "basic" /\ idx > Len(cmds)
  /\ pc' = "plugin" /\ idx' = 1
  /\ UNCHANGED <<regVars, got, returned, loadVars, display, app, log, apiVars>>

\* _process_plugin_commands: MenuApp.command_bus is None, which has no
\* command_mapper, so the loop dispatches nothing; then _process_popup_commands
\* groups the popup instructions
ProcessPlugin ==
  /\ pc = "plugin"
  /\ pc' = PopupPc[1] /\ idx' = 1
  /\ UNCHANGED <<regVars, got, returned, loadVars, display, app, log, apiVars>>

\* one iteration of one of the three loops of _process_popup_commands:
\* registry.get(verb)(self, *args) inside try/except
PopupIteration(catch) ==
  /\ pc \in PopupPhases
  /\ LET verb    == PopupOrder[PhaseNo(pc)]
         group   == PopupGroup(cmds, verb)
     IN /\ idx <= Len(group)
        /\ LET toks    == cmds[group[idx]]
               handler == get(handlers, aliases, verb)
               r       == IF handler = None
                            THEN Raised(app)      \* TypeError: None is not callable
                            ELSE CallHandler(handler, app, Tail(toks), display)
           IN /\ app' = r.app
              /\ log' = Append(log, [phase |-> pc, i |-> group[idx],
                                     func |-> handler, raised |-> r.raised])
              /\ IF r.raised /\ ~catch
                   THEN pc' = "failed" /\ idx' = idx
                   ELSE pc' = pc /\ idx' = idx + 1
  /\ UNCHANGED <<regVars, got, returned, loadVars, display, apiVars>>

ProcessPopup == PopupIteration(TRUE)

\* a variant that leaves phase 3 after its first loop
NextPhaseAfterFirstLoop(p) == "bind_exec"

\* the phase that follows p
NextPhase(p) ==
  IF PhaseNo(p) < Len(PopupPc) THEN PopupPc[PhaseNo(p) + 1] ELSE "bind_exec"

\* one of the three loops is over
EndPopup ==
  /\ pc \in PopupPhases
  /\ idx > Len(PopupGroup(cmds, PopupOrder[PhaseNo(pc)]))
  /\ pc' = NextPhase(pc) /\ idx' = 1
  /\ UNCHANGED <<regVars, got, returned, loadVars, display, app, log, apiVars>>

\* make_exec_cb(templates)
make_exec_cb(templates) == [kind |-> "exec", templates |-> templates, action |-> <<>>]

Event == [click |-> <<"c", "l", "i", "c", "k">>,
          doubleclick |-> <<"d", "o", "u", "b", "l", "e", "c", "l", "i", "c", "k">>,
          keyrelease |-> <<"k", "e", "y", "r", "e", "l", "e", "a", "s", "e">>,
          hover |-> <<"h", "o", "v", "e", "r">>,
          Button1 |-> <<"<", "B", "u", "t", "t", "o", "n", "-", "1", ">">>,
          DoubleButton1 |-> <<"<", "D", "o", "u", "b", "l", "e", "-", "B", "u", "t", "t", "o", "n", "-", "1", ">">>,
          KeyRelease |-> <<"<", "K", "e", "y", "R", "e", "l", "e", "a", "s", "e", ">">>]

\* widget.bind(evt, cb): replaces what was bound to evt
TkBind(widget, evt, cb) == [widget EXCEPT !.binds = DictSet(@, evt, cb)]

\* one iteration of the loop of _bind_exec_actions
BindExec ==
  /\ pc = "bind_exec"
  /\ idx <= Len(app.exec_map)
  /\ LET btn_name == app.exec_map[idx].btn
         cb       == make_exec_cb(app.exec_map[idx].templates)
     IN IF btn_name \notin DOMAIN app.controls
          THEN UNCHANGED <<app, log>>
          ELSE /\ app' = IF app.controls[btn_name].class = "Button"
                           THEN [app EXCEPT !.controls[btn_name].command = cb]
                           ELSE [app EXCEPT !.controls[btn_name] = TkBind(@, Event.Button1, cb)]
               /\ log' = Append(log, [phase |-> "bind_exec", i |-> idx,
                                      func |-> "make_exec_cb", raised |-> FALSE])
  /\ pc' = pc /\ idx' = idx + 1
  /\ UNCHANGED <<regVars, got, returned, loadVars, display, apiVars>>

EndBindExec ==
  /\ pc = "bind_exec" /\ idx > Len(app.exec_map)
  /\ pc' = "bind_events" /\ idx' = 1
  /\ UNCHANGED <<regVars, got, returned, loadVars, display, app, log, apiVars>>

\* the evt_map lookup of _bind_events
EventSequence(event) ==
  LET e == Lower(event) IN
  IF e = Event.click THEN Event.Button1
  ELSE IF e = Event.doubleclick THEN Event.DoubleButton1
  ELSE IF e = Event.keyrelease THEN Event.KeyRelease
  ELSE <<"<">> \o event \o <<">">>

\* the event sequences, among those the scripts of the model produce, for
\* which Tk's bind raises TclError (bad event type or keysym)
TkRejects(evt) == evt = <<"<">> \o Event.hover \o <<">">>

\* one iteration of the loop of _bind_events; the loop has no try/except, so
\* a TclError leaves build_ui's try block
BindEvent ==
  /\ pc = "bind_events"
  /\ idx <= Len(app.binding_list)
  /\ LET name   == app.binding_list[idx][1]
         evt    == EventSequence(app.binding_list[idx][2])
         cb     == [kind |-> "binding", templates |-> <<>>,
                    action |-> app.binding_list[idx][3]]
     IN IF name \notin DOMAIN app.controls
          THEN /\ UNCHANGED <<app, log>>
               /\ pc' = pc /\ idx' = idx + 1
          ELSE IF TkRejects(evt)
            THEN /\ UNCHANGED app
                 /\ log' = Append(log, [phase |-> "bind_events", i |-> idx,
                                        func |-> "bind", raised |-> TRUE])
                 /\ pc' = "failed" /\ idx' = idx
            ELSE /\ app' = [app EXCEPT !.controls[name] = TkBind(@, evt, cb)]
                 /\ log' = Append(log, [phase |-> "bind_events", i |-> idx,
                                        func |-> "bind", raised |-> FALSE])
                 /\ pc' = pc /\ idx' = idx + 1
  /\ UNCHANGED <<regVars, got, returned, loadVars, display, apiVars>>

\* the last loop is over; show_code_comparison is False, so build_ui logs that
\* the UI is complete and returns
EndBindEvents ==
  /\ pc = "bind_events" /\ idx > Len(app.binding_list)
  /\ pc' = "done" /\ idx' = 1
  /\ UNCHANGED <<regVars, got, returned, loadVars, display, app, log, apiVars>>

(***************************************************************************)
(* The API manager (core/api_manager.py) and the helpers it calls          *)
(* (utils/helpers.py)                                                      *)
(***************************************************************************)
Method == [GET |-> <<"G", "E", "T">>,
           POST |-> <<"P", "O", "S", "T">>,
           PUT |-> <<"P", "U", "T">>,
           DELETE |-> <<"D", "E", "L", "E", "T", "E">>,
           PATCH |-> <<"P", "A", "T", "C", "H">>,
           HEAD |-> <<"H", "E", "A", "D">>,
           OPTIONS |-> <<"O", "P", "T", "I", "O", "N", "S">>]

\* utils/constants.py HTTP_METHODS
HTTP_METHODS == {Method.GET, Method.POST, Method.PUT, Method.DELETE, Method.PATCH, Method.HEAD, Method.OPTIONS}

validate_http_method(method) == Upper(method) \in HTTP_METHODS

\* the position of the first c in s from position i on, 0 when there is none
FirstIndex(s, c, i) ==
  IF \E j \in i..Len(s) : s[j] = c
    THEN CHOOSE j \in i..Len(s) : s[j] = c /\ \A k \in i..(j - 1) : s[k] # c
    ELSE 0

Scheme == [http |-> <<"h", "t", "t", "p", ":", "/", "/">>,
           https |-> <<"h", "t", "t", "p", "s", ":", "/", "/">>,
           localhost |-> <<"l", "o", "c", "a", "l", "h", "o", "s", "t">>,
           loopback |-> <<"1", "2", "7", ".", "0", ".", "0", ".", "1">>]
AuthScheme == [Bearer |-> <<"B", "e", "a", "r", "e", "r", " ">>,
               Basic |-> <<"B", "a", "s", "i", "c", " ">>]

\* urlparse(url).scheme: the letters before the first colon
SchemeOf(url) ==
  LET c == FirstIndex(url, ":", 1) IN
  IF c > 1 /\ \A j \in 1..(c - 1) : LowerChar(url[j]) \in DOMAIN UpperOf
    THEN Lower(SubSeq(url, 1, c - 1))
    ELSE <<>>

ensure_url_scheme(url) ==
  IF url = <<>> THEN Scheme.https \o Scheme.localhost
  ELSE IF SchemeOf(url) # <<>> THEN url
  ELSE IF StartsWith(url, Scheme.localhost) \/ StartsWith(url, Scheme.loopback) THEN Scheme.http \o url
  ELSE IF FirstIndex(url, ":", 1) # 0 THEN Scheme.http \o url
  ELSE Scheme.https \o url

\* urljoin(base_url, path) for a base of the form scheme://host[/path] and a
\* path with no scheme, no `//` and no dot segments
join_url_path(base_url, path) ==
  LET hostAt == Len(SchemeOf(base_url)) + 4
      slash  == FirstIndex(base_url, "/", hostAt)
      site   == IF slash = 0 THEN base_url ELSE SubSeq(base_url, 1, slash - 1)
      folder == IF slash = 0 THEN <<"/">>
                ELSE SubSeq(base_url, slash,
                            CHOOSE j \in slash..Len(base_url) :
                              base_url[j] = "/" /\ \A k \in (j + 1)..Len(base_url) : base_url[k] # "/")
  IN IF path = <<>> THEN base_url
     ELSE IF path[1] = "/" THEN site \o path
     ELSE site \o folder \o path

create_response_template(success, message, data, status_code) ==
  [success |-> success, message |-> message, data |-> data, status_code |-> status_code]

\* ERROR_MESSAGES[key].format(...) and the f-strings of call_api: the
\* template and the text put into it
Message(key, arg) == [key |-> key, arg |-> arg]

\* str.format(**context) from position i of template t: status "ok" with the
\* text produced, or the exception raised
RECURSIVE FormatFrom(_, _, _)
FormatFrom(t, i, context) ==
  IF i > Len(t) THEN [status |-> "ok", out |-> <<>>]
  ELSE IF t[i] = "{" /\ i < Len(t) /\ t[i + 1] = "{"
    THEN LET r == FormatFrom(t, i + 2, context)
         IN [r EXCEPT !.out = <<"{">> \o r.out]
  ELSE IF t[i] = "}" /\ i < Len(t) /\ t[i + 1] = "}"
    THEN LET r == FormatFrom(t, i + 2, context)
         IN [r EXCEPT !.out = <<"}">> \o r.out]
  ELSE IF t[i] = "}" THEN [status |-> "ValueError", out |-> <<>>]
  ELSE IF t[i] = "{"
    THEN LET close == FirstIndex(t, "}", i + 1) IN
         IF close = 0 THEN [status |-> "ValueError", out |-> <<>>]
         ELSE IF close = i + 1 THEN [status |-> "IndexError", out |-> <<>>]
         ELSE IF SubSeq(t, i + 1, close - 1) \notin DOMAIN context
           THEN [status |-> "KeyError", out |-> <<>>]
         ELSE LET r == FormatFrom(t, close + 1, context)
              IN [r EXCEPT !.out = context[SubSeq(t, i + 1, close - 1)] \o r.out]
  ELSE LET r == FormatFrom(t, i + 1, context)
       IN [r EXCEPT !.out = <<t[i]>> \o r.out]

\* format_string_with_context: KeyError and ValueError give the template back,
\* another exception propagates
format_string_with_context(template, context) ==
  LET r == FormatFrom(template, 1, context) IN
  IF r.status = "ok" THEN [raised |-> FALSE, text |-> r.out]
  ELSE IF r.status \in {"KeyError", "ValueError"} THEN [raised |-> FALSE, text |-> template]
  ELSE [raised |-> TRUE, text |-> template]

\* whether json.loads parses a text of digits and lower-case letters that
\* spell no JSON literal: it does when the text is an integer
safe_json_loads(json_str) ==
  /\ json_str # <<>>
  /\ \A j \in 1..Len(json_str) : json_str[j] \in DigitChars
  /\ Len(json_str) > 1 => json_str[1] # "0"

\* no request body (Python's None)
NoData == [kind |-> "none", value |-> <<>>]

\* the request body call_api prepares; an absent or empty template and an
\* absent or empty context are <<>>
PrepareData(data_template, context) ==
  IF data_template # <<>> /\ DOMAIN context # {}
    THEN LET f == format_string_with_context(data_template, context) IN
         IF f.raised THEN [kind |-> "text", value |-> data_template]
         ELSE IF safe_json_loads(f.text) THEN [kind |-> "json", value |-> f.text]
         ELSE [kind |-> "text", value |-> f.text]
    ELSE NoData

\* the Authorization header for a stored key, <<>> when none is sent
Authorization(key) ==
  IF key = <<>> THEN <<>>
  ELSE IF StartsWith(key, AuthScheme.Bearer) \/ StartsWith(key, AuthScheme.Basic) THEN key
  ELSE AuthScheme.Bearer \o key

\* _make_request: the requests handed to the transport and how the call
\* ends, net being what the network does with a request
_make_request(method, url, authorization, data, net) ==
  LET req == [method |-> method, url |-> url, authorization |-> authorization,
              params |-> IF method = Method.GET THEN data ELSE NoData,
              json   |-> IF method \in {Method.POST, Method.PUT} THEN data ELSE NoData]
  IN IF method \in {Method.GET, Method.POST, Method.PUT, Method.DELETE}
       THEN [sent |-> <<req>>, outcome |-> net]
       ELSE [sent |-> <<>>, outcome |-> "ValueError"]

\* _process_response
_process_response(status_code) ==
  create_response_template(TRUE, Message("API_CONNECTED", <<>>), "result_data", status_code)

\* call_api: the response returned and the requests made
call_api(as, api_name, method, path, data_template, context, net) ==
  IF ~validate_http_method(method)
    THEN [result |-> create_response_template(FALSE, Message("INVALID_HTTP_METHOD", method), None, 400),
          sent   |-> <<>>]
  ELSE IF api_name \notin DOMAIN as
    THEN [result |-> create_response_template(FALSE, Message("API_NOT_FOUND", api_name), None, 404),
          sent   |-> <<>>]
  ELSE
    LET api_config == as[api_name]
        full_url   == join_url_path(api_config.url, path)
        data       == PrepareData(data_template, context)
        r          == _make_request(Upper(method), full_url,
                                    Authorization(api_config.key), data, net)
    IN [result |-> IF r.outcome = "ok"
                     THEN _process_response(200)
                     ELSE create_response_template(FALSE, Message("API_REQUEST_FAILED", <<r.outcome>>), None, 500),
        sent   |-> r.sent]

\* add_api(name, url, key)
add_api(as, name, url, key) ==
  DictSet(as, name, [url |-> ensure_url_scheme(url), key |-> key, username |-> <<>>,
                     password |-> <<>>, show_secret |-> FALSE])

\* remove_api(name)
remove_api(as, name) == IF name \in DOMAIN as THEN DictDel(as, name) ELSE as

\* no call_api has returned to the client
NoResponse ==
  [called |-> FALSE, api_name |-> <<>>, method |-> <<>>,
   data_template |-> <<>>, context |-> <<>>,
   result |-> create_response_template(FALSE, Message("", <<>>), None, 0)]

\* update_api_auth(api_name, key): a key of None leaves the stored key alone
update_api_auth(as, api_name, key) ==
  IF api_name \notin DOMAIN as \/ key = <<>> THEN as
  ELSE [as EXCEPT ![api_name].key = key]

\* no helper function has been called
NoReturn == [called |-> FALSE]

\* the threads of the process, and a thread that is in no method of the
\* API manager
Threads == {"MainThread", "Thread-1"}

NoArgs == [name |-> <<>>, url |-> <<>>, key |-> <<>>, configs |-> <<>>,
           overwrite |-> FALSE, fails |-> FALSE]

\* raised is whether the thread's latest call left its body by an exception
Idle == [method |-> None, at |-> "idle", args |-> NoArgs, i |-> 1, ret |-> <<>>,
         raised |-> FALSE]

\* APIManager.__init__, and no thread started on a method yet
InitThreads ==
  /\ _lock = None
  /\ threads = [t \in Threads |-> Idle]
  /\ accesses = {}
  /\ after_queue = <<>>

(***************************************************************************)
(* The scripts of the model                                                *)
(***************************************************************************)
Word == [menu |-> <<"m", "e", "n", "u">>,
         binding |-> <<"b", "i", "n", "d", "i", "n", "g">>,
         exec |-> <<"e", "x", "e", "c">>,
         style |-> <<"s", "t", "y", "l", "e">>,
         Style |-> <<"S", "t", "y", "l", "e">>,
         win |-> <<"w", "i", "n">>,
         svc |-> <<"s", "v", "c">>,
         nope |-> <<"n", "o", "p", "e">>]

Line == [win |-> JoinSp(<<Word.menu, <<"w", "i", "n">>, <<"w">>, <<"1">>, <<"1">>, <<"t">>>>),
         ctrl |-> JoinSp(<<Word.menu, <<"c", "t", "r", "l">>, Widget.button, <<"b">>>>),
         style |-> JoinSp(<<Word.menu, <<"s", "t", "y", "l", "e">>>>),
         bind_click |-> JoinSp(<<Word.menu, Word.binding, <<"b">>, Event.click, <<"x">>>>),
         bind_hover |-> JoinSp(<<Word.menu, Word.binding, <<"b">>, Event.hover, <<"x">>>>),
         exec |-> JoinSp(<<Word.menu, <<"e", "x", "e", "c">>, <<"b">>, <<"e">>>>),
         popup_window |-> JoinSp(<<Word.menu, <<"P", "o", "p", "u", "p", "-", "W", "i", "n", "d", "o", "w">>, <<"p">>, <<"t">>>>),
         popup_content |-> JoinSp(<<Word.menu, V_popup_content, <<"p">>>>),
         popup_send |-> JoinSp(<<Word.menu, V_popup_send_data, <<"p">>, <<"d">>, <<"b">>>>),
         relative |-> JoinSp(<<Word.menu, <<"r", "e", "l", "a", "t", "i", "v", "e">>, <<"b">>>>)]

\* a script of the engine specification opens the main window, or opens it and
\* places button b, ...
Headers == {<<Line.win>>, <<Line.win, Line.ctrl>>}

\* ... and goes on with up to MaxLines of these directive lines: `style` with
\* no class name (its handler raises TypeError), two bindings (Tk rejects the
\* event of the second), an exec binding, the three popup verbs (the first in
\* mixed case) and a verb the alias table rewrites
BodyLines ==
  { Line.style, Line.bind_click, Line.bind_hover, Line.exec,
    Line.popup_window, Line.popup_content, Line.popup_send, Line.relative }

\* the longest script body of the engine specification, in lines
MaxLines == 3

Scripts == {h \o b : h \in Headers, b \in SeqUpTo(BodyLines, MaxLines)}

(***************************************************************************)
(* The engine specification: a MenuApp is constructed on a script (which   *)
(* loads it) and build_ui runs                                             *)
(***************************************************************************)
Init ==
  /\ handlers = StartupHandlers
  /\ aliases = <<>>
  /\ registered = RegisteredBy(StartupHandlers)
  /\ got = NoCall
  /\ script \in Scripts
  /\ line_num = Len(script)
  /\ cmds = load_script(script)
  /\ pc = "basic"
  /\ idx = 1
  /\ display \in BOOLEAN
  /\ app = NewApp
  /\ log = <<>>
  /\ apis = <<>>
  /\ response = NoResponse
  /\ requests = <<>>
  /\ InitThreads
  /\ returned = NoReturn

Next ==
  \/ ProcessBasic
  \/ EndBasic
  \/ ProcessPlugin
  \/ ProcessPopup
  \/ EndPopup
  \/ BindExec
  \/ EndBindExec
  \/ BindEvent
  \/ EndBindEvents

Spec == Init /\ [][Next]_vars

(***************************************************************************)
(* Properties of the engine                                                *)
(***************************************************************************)
\* the positions i of cmds, among those in S, that satisfy P, in increasing order
RECURSIVE Ascending(_)
Ascending(S) ==
  IF S = {} THEN <<>>
  ELSE LET m == CHOOSE x \in S : \A y \in S : x <= y
       IN <<m>> \o Ascending(S \ {m})

\* the instruction positions of the log entries of the phases in P, in log order
RECURSIVE EntriesOf(_, _)
EntriesOf(l, P) ==
  IF l = <<>> THEN <<>>
  ELSE IF Head(l).phase \in P THEN <<Head(l).i>> \o EntriesOf(Tail(l), P)
  ELSE EntriesOf(Tail(l), P)

\* the verb of the instruction a log entry of phase 1 or 3 is about
VerbAt(j) == Lower(cmds[log[j].i][1])

\* the instructions phase 1 has to dispatch among the first n: not a popup
\* verb, and a verb the registry resolves
Dispatchable(n) ==
  {i \in 1..n : /\ Lower(cmds[i][1]) \notin {V_popup_window, V_popup_content, V_popup_send_data}
                /\ get(handlers, aliases, cmds[i][1]) # None}

\* C1: handler isolation in phase 1.  The handlers invoked so far by phase 1
\* are, in order, exactly the resolvable non-popup instructions the loop has
\* passed, whether or not one of them raised; once phase 1 is over that is all
\* of them
C1_HandlerIsolation ==
  EntriesOf(log, {"basic"}) =
    Ascending(Dispatchable(IF pc = "basic" THEN idx - 1 ELSE Len(cmds)))

\* a handler of phase 1 has raised and a later instruction was dispatched
C1_Witness ==
  \E j, k \in 1..Len(log) :
    /\ j < k
    /\ log[j].phase = "basic" /\ log[j].raised
    /\ log[k].phase = "basic" /\ log[k].i > log[j].i

\* the place of a popup verb in the order window, content, send-data
PopupRank(v) ==
  IF v = V_popup_window THEN 1 ELSE IF v = V_popup_content THEN 2 ELSE 3

PopupEntries == {j \in 1..Len(log) : log[j].phase \in PopupPhases}

\* C2: popup ordering.  Among the popup instructions phase 3 has run, those
\* of an earlier group come first and a group keeps script order; when an
\* instruction of a group runs, every instruction of the groups before it has
\* run
C2_PopupOrdering ==
  /\ \A j, k \in PopupEntries :
       j < k =>
         /\ PopupRank(VerbAt(j)) <= PopupRank(VerbAt(k))
         /\ PopupRank(VerbAt(j)) = PopupRank(VerbAt(k)) => log[j].i < log[k].i
  /\ \A k \in PopupEntries :
       \A i \in 1..Len(cmds) :
         /\ Lower(cmds[i][1]) \in {V_popup_window, V_popup_content, V_popup_send_data}
         /\ PopupRank(Lower(cmds[i][1])) < PopupRank(VerbAt(k))
         => \E j \in PopupEntries : j < k /\ log[j].i = i

\* a popup-content instruction has run after a popup-window instruction that
\* comes later in the script
C2_Witness ==
  \E j, k \in PopupEntries :
    /\ j < k
    /\ VerbAt(j) = V_popup_window /\ VerbAt(k) = V_popup_content
    /\ log[j].i > log[k].i

\* the place of a phase in build_ui
PhaseRank(p) ==
  CASE p = "basic"           -> 1
    [] p = "plugin"          -> 2
    [] p = "popup-window"    -> 3
    [] p = "popup-content"   -> 3
    [] p = "popup-send-data" -> 3
    [] p = "bind_exec"       -> 4
    [] p = "bind_events"     -> 5
    [] OTHER                 -> 6

\* some widget carries a callback of phase 4 or 5
SomeCallbackBound ==
  \E n \in DOMAIN app.controls :
    app.controls[n].command # NoCallback \/ app.controls[n].binds # <<>>

\* C3: phase order.  What the phases have done so far is in phase order and
\* none is from a phase after the current one; the first popup instruction
\* runs after every non-popup instruction was dispatched; a callback is bound
\* only after every popup instruction has run
C3_PhaseOrder ==
  /\ \A j, k \in 1..Len(log) :
       j < k => PhaseRank(log[j].phase) <= PhaseRank(log[k].phase)
  /\ \A j \in 1..Len(log) : PhaseRank(log[j].phase) <= PhaseRank(pc)
  /\ PopupEntries # {} =>
       EntriesOf(log, {"basic"}) = Ascending(Dispatchable(Len(cmds)))
  /\ SomeCallbackBound =>
       \A i \in 1..Len(cmds) :
         Lower(cmds[i][1]) \in {V_popup_window, V_popup_content, V_popup_send_data}
         => \E j \in PopupEntries : log[j].i = i

\* build_ui has completed after dispatching in phase 1, running a popup
\* instruction and binding an exec and an event callback
C3_Witness ==
  /\ pc = "done"
  /\ \E n \in DOMAIN app.controls :
       app.controls[n].command # NoCallback /\ app.controls[n].binds # <<>>
  /\ PopupEntries # {}
  /\ \E j \in 1..Len(log) : log[j].phase = "basic"

\* C4 (as claimed): a failing binding is not fatal.  When build_ui has ended,
\* every recorded event binding whose widget exists has been handed to the
\* toolkit
C4_BindingFailureNotFatal ==
  pc \in {"done", "failed"} =>
    \A k \in 1..Len(app.binding_list) :
      app.binding_list[k][1] \in DOMAIN app.controls
      => \E j \in 1..Len(log) : log[j].phase = "bind_events" /\ log[j].i = k

\* C6 (as claimed): a script line whose verb is a key of the alias table is
\* dispatched to a handler in phase 1
C6_AliasLinesDispatched ==
  pc # "basic" =>
    \A i \in 1..Len(script) :
      Lower(parse_command_line(script[i])[1]) \in DOMAIN COMMAND_ALIASES
      => \E j \in 1..Len(log) : log[j].phase = "basic" /\ log[j].i = i

(***************************************************************************)
(* The loader specification: MenuApp.load_script reads a script file line  *)
(* by line                                                                 *)
(***************************************************************************)

\* the lines a script file of the loader specification is made of: blank and
\* whitespace-only lines, comments, directives (one through an alias, one in
\* surrounding whitespace, one with a quoted argument), the terminal verb in
\* two spellings, a line without the prefix, the bare prefix, a directive with
\* an unterminated quote (the fallback scan keeps the quote character as a
\* token) and the terminal verb without the prefix
FileLines ==
  { <<>>,
    <<" ">>,
    <<"#", " ", "c">>,
    <<"#">> \o Word.menu \o <<" ">> \o V_show,
    Line.style,
    Line.ctrl,
    <<" ">> \o JoinSp(<<Word.menu, Word.exec, <<"b">>, <<"e">>>>) \o <<" ">>,
    JoinSp(<<Word.menu, <<"c", "o", "n", "t", "r", "o", "l">>, Widget.entry,
             <<"\"", "a", " ", "b", "\"">>>>),
    JoinSp(<<Word.menu, V_show>>),
    JoinSp(<<Word.menu, <<"S", "h", "o", "w">>, <<"x">>>>),
    JoinSp(<<Word.exec, <<"b">>, <<"e">>>>),
    Word.menu,
    JoinSp(<<Word.menu, <<"\"">>>>),
    V_show }

\* the longest script file of the loader specification, in lines
MaxFileLines == 3

Files == SeqUpTo(FileLines, MaxFileLines)

InitLoad ==
  /\ handlers = StartupHandlers
  /\ aliases = <<>>
  /\ registered = RegisteredBy(StartupHandlers)
  /\ got = NoCall
  /\ script \in Files
  /\ line_num = 0
  /\ cmds = <<>>
  /\ pc = "loading"
  /\ idx = 1
  /\ display = FALSE
  /\ app = NewApp
  /\ log = <<>>
  /\ apis = <<>>
  /\ response = NoResponse
  /\ requests = <<>>
  /\ InitThreads
  /\ returned = NoReturn

\* one iteration of the loop over the lines of the file; `break` ends the load
ReadLine ==
  /\ pc = "loading"
  /\ line_num < Len(script)
  /\ LET acc == LoadLine([cmds |-> cmds, stopped |-> FALSE], script[line_num + 1])
     IN /\ cmds' = acc.cmds
        /\ pc' = IF acc.stopped THEN "loaded" ELSE "loading"
  /\ line_num' = line_num + 1
  /\ UNCHANGED <<regVars, got, returned, script, idx, display, app, log, apiVars>>

\* the file is exhausted: load_script returns cmds
FinishLoad ==
  /\ pc = "loading"
  /\ line_num = Len(script)
  /\ pc' = "loaded"
  /\ UNCHANGED <<regVars, got, returned, loadVars, idx, display, app, log, apiVars>>

NextLoad == ReadLine \/ FinishLoad

SpecLoad == InitLoad /\ [][NextLoad]_vars

\* a directive line: stripped of surrounding whitespace it begins with the
\* prefix
IsDirective(raw) == StartsWith(Strip(raw), MenuPrefix)

\* the tokens of a directive line
TokensOf(raw) == parse_command_line(Strip(raw))

\* the tokens of a directive line, its verb rewritten through the alias table
Instruction(raw) ==
  LET toks == TokensOf(raw) IN
  IF Lower(toks[1]) \in DOMAIN COMMAND_ALIASES
    THEN <<COMMAND_ALIASES[Lower(toks[1])]>> \o Tail(toks)
    ELSE toks

\* a line whose verb is show, whatever its letter case
IsShowLine(raw) ==
  IsDirective(raw) /\ TokensOf(raw) # <<>> /\ Lower(TokensOf(raw)[1]) = V_show

\* the instructions of the lines i..n of a file
RECURSIVE InstructionsFrom(_, _, _)
InstructionsFrom(file, i, n) ==
  IF i > n THEN <<>>
  ELSE IF IsDirective(file[i]) /\ TokensOf(file[i]) # <<>>
    THEN <<Instruction(file[i])>> \o InstructionsFrom(file, i + 1, n)
  ELSE InstructionsFrom(file, i + 1, n)

\* the lines of the first n that precede the first show line among them
BeforeShow(file, n) ==
  IF \E i \in 1..n : IsShowLine(file[i])
    THEN (CHOOSE i \in 1..n : IsShowLine(file[i]) /\ \A j \in 1..(i - 1) : ~IsShowLine(file[j])) - 1
    ELSE n

\* C8: the script loader and the terminal verb.  The list built from the lines
\* read so far, and the list returned, is exactly the instructions of the
\* directive lines before the first show line, in file order
C8_LoadedBeforeShow ==
  cmds = InstructionsFrom(script, 1, BeforeShow(script, line_num))

\* a load has returned a non-empty list for a file with a directive after its
\* show line
C8_Witness ==
  /\ pc = "loaded"
  /\ cmds # <<>>
  /\ \E i, j \in 1..Len(script) :
       i < j /\ IsShowLine(script[i]) /\ IsDirective(script[j]) /\ ~IsShowLine(script[j])

(***************************************************************************)
(* The registry specification: clients call register, add_alias,           *)
(* remove_command, clear and get on a CommandRegistry in any order         *)
(***************************************************************************)

\* the names the clients pass: the empty verb (the tokenizer yields it for
\* `menu ""`), a verb in two letter cases and two more verbs
RegNames == {<<>>, Word.style, Word.Style, Word.exec, Word.win}

\* the handler functions the clients register
RegFuncs == {"cmd_style", "cmd_exec"}

\* the most entries, verbs and aliases together, the registry holds
MaxEntries == 3

Entries == Cardinality(DOMAIN handlers) + Cardinality(DOMAIN aliases)

InitRegistry ==
  /\ handlers = <<>>
  /\ aliases = <<>>
  /\ registered = <<>>
  /\ got = NoCall
  /\ script = <<>>
  /\ line_num = 0
  /\ cmds = <<>>
  /\ pc = "registry"
  /\ idx = 1
  /\ display = FALSE
  /\ app = NewApp
  /\ log = <<>>
  /\ apis = <<>>
  /\ response = NoResponse
  /\ requests = <<>>
  /\ InitThreads
  /\ returned = NoReturn

\* registry.register(name)(func)
RegisterCall(name, func) ==
  /\ pc = "registry" /\ ~got.called
  /\ Lower(name) \in DOMAIN handlers \/ Entries < MaxEntries
  /\ handlers' = register(handlers, name, func)
  /\ registered' = DictSet(registered, Lower(name),
                           [func |-> func, replaced |-> Lower(name) \in DOMAIN registered])
  /\ UNCHANGED <<aliases, got, returned, loadVars, pc, idx, display, app, log, apiVars>>

Register == \E name \in RegNames, func \in RegFuncs : RegisterCall(name, func)

\* registry.add_alias(alias, actual_name)
AddAlias ==
  /\ pc = "registry" /\ ~got.called
  /\ \E alias \in RegNames, actual_name \in RegNames :
       /\ Lower(alias) \in DOMAIN aliases \/ Entries < MaxEntries
       /\ aliases' = add_alias(aliases, alias, actual_name)
  /\ UNCHANGED <<handlers, registered, got, returned, loadVars, pc, idx, display, app, log, apiVars>>

\* registry.remove_command(name)
RemoveCommand ==
  /\ pc = "registry" /\ ~got.called
  /\ \E name \in RegNames :
       LET r == remove_command(handlers, aliases, name)
       IN /\ handlers' = r.handlers
          /\ aliases' = r.aliases
          /\ registered' = DictDel(registered, Lower(name))
  /\ UNCHANGED <<got, returned, loadVars, pc, idx, display, app, log, apiVars>>

\* registry.clear()
Clear ==
  /\ pc = "registry" /\ ~got.called
  /\ handlers' = <<>>
  /\ aliases' = <<>>
  /\ registered' = <<>>
  /\ UNCHANGED <<got, returned, loadVars, pc, idx, display, app, log, apiVars>>

\* registry.get(name): the client holds the value returned
GetCall ==
  /\ pc = "registry" /\ ~got.called
  /\ \E name \in RegNames :
       got' = [called |-> TRUE, name |-> name, result |-> get(handlers, aliases, name)]
  /\ UNCHANGED <<regVars, returned, loadVars, pc, idx, display, app, log, apiVars>>

\* the client is done with the value and goes on to its next call
GetDone ==
  /\ pc = "registry" /\ got.called
  /\ got' = NoCall
  /\ UNCHANGED <<regVars, returned, loadVars, pc, idx, display, app, log, apiVars>>

NextRegistry == Register \/ AddAlias \/ RemoveCommand \/ Clear \/ GetCall \/ GetDone

SpecRegistry == InitRegistry /\ [][NextRegistry]_vars

\* C5 (as claimed): alias resolution.  For every stored pair (alias,
\* canonical), get(alias) and get(canonical) return the same result
C5_AliasSameAsCanonical ==
  \A a \in DOMAIN aliases :
    get(handlers, aliases, a) = get(handlers, aliases, aliases[a])

\* C5 (amended): alias resolution is one hop, after the direct lookup.  For
\* every stored pair (alias, canonical) whose alias is not itself a registered
\* verb: when canonical is a registered, non-empty verb, get(alias) and
\* get(canonical) both return the handler registered under canonical; when
\* canonical is neither a registered verb nor an alias, both return None
C5_AliasOneHop ==
  \A a \in DOMAIN aliases :
    a \notin DOMAIN handlers =>
      LET c == aliases[a] IN
      /\ (c \in DOMAIN handlers /\ c # <<>>) =>
           /\ get(handlers, aliases, a) = handlers[c]
           /\ get(handlers, aliases, c) = handlers[c]
      /\ (c \notin DOMAIN handlers /\ c \notin DOMAIN aliases) =>
           /\ get(handlers, aliases, a) = None
           /\ get(handlers, aliases, c) = None

\* a client has looked up an alias of a registered verb and got its handler
C5_Witness ==
  /\ got.called
  /\ Lower(got.name) \in DOMAIN aliases
  /\ Lower(got.name) \notin DOMAIN handlers
  /\ aliases[Lower(got.name)] \in DOMAIN handlers
  /\ got.result = handlers[aliases[Lower(got.name)]]

\* C7 (as claimed): an unknown verb is a value.  get returns None exactly
\* when the lowercased name is not a registered verb and is not an alias whose
\* target is a registered verb
C7_NoneIffUnresolvable ==
  got.called =>
    LET n == Lower(got.name) IN
    (got.result = None) <=>
      /\ n \notin DOMAIN handlers
      /\ ~(n \in DOMAIN aliases /\ aliases[n] \in DOMAIN handlers)

\* C9: last registration wins, case-insensitively.  For every verb registered
\* and not removed since, get of the verb in any letter case returns the
\* handler of its latest registration; a register call changes the handler of
\* no other verb and leaves the aliases alone
C9_LastRegistrationWins ==
  /\ [](\A w \in RegNames :
          Lower(w) \in DOMAIN registered
          => get(handlers, aliases, w) = registered[Lower(w)].func)
  /\ [][\A name \in RegNames, func \in RegFuncs :
          RegisterCall(name, func) =>
            /\ aliases' = aliases
            /\ DOMAIN handlers' = DOMAIN handlers \cup {Lower(name)}
            /\ \A k \in DOMAIN handlers \ {Lower(name)} : handlers'[k] = handlers[k]]_vars

\* a verb registered in one letter case has been registered again with another
\* handler, and the registry returns the later one for the other letter case
C9_Witness ==
  /\ Word.style \in DOMAIN registered
  /\ registered[Word.style].replaced
  /\ got.called /\ got.name = Word.Style
  /\ got.result = registered[Word.style].func

(***************************************************************************)
(* The API specification: clients configure and remove APIs and call them  *)
(***************************************************************************)

\* the API names, base URLs (one without a scheme) and keys of the clients
ApiNames == {Word.svc, Word.nope}
ApiUrls  == {<<"h">>, Scheme.http \o <<"h">>}
ApiKeys  == {<<>>, <<"k">>}

\* the arguments of the calls: methods of the allow-list in both letter
\* cases, one the transport does not implement, one outside the allow-list
\* and the empty method; a path; no body template, one with a placeholder and
\* one without; no context and one that fills the placeholder
CallMethods   == {Method.GET, <<"p", "o", "s", "t">>, Method.DELETE, Method.PATCH,
                  <<"F", "E", "T", "C", "H">>, <<>>}
CallPaths     == {<<"/", "x">>}
CallTemplates == {<<>>, <<"{", "v", "}">>, <<"h", "i">>}
CallContexts  == {<<>>, [n \in {<<"v">>} |-> <<"1">>]}

\* what the network does with a request
NetOutcomes == {"ok", "HTTPError", "ConnectionError"}

InitApi ==
  /\ handlers = StartupHandlers
  /\ aliases = <<>>
  /\ registered = RegisteredBy(StartupHandlers)
  /\ got = NoCall
  /\ script = <<>>
  /\ line_num = 0
  /\ cmds = <<>>
  /\ pc = "api"
  /\ idx = 1
  /\ display = FALSE
  /\ app = NewApp
  /\ log = <<>>
  /\ apis = <<>>
  /\ response = NoResponse
  /\ requests = <<>>
  /\ InitThreads
  /\ returned = NoReturn

\* api_manager.add_api(name, url, key)
AddApi ==
  /\ pc = "api" /\ ~response.called
  /\ \E name \in ApiNames, url \in ApiUrls, key \in ApiKeys :
       apis' = add_api(apis, name, url, key)
  /\ UNCHANGED <<regVars, got, returned, loadVars, pc, idx, display, app, log, response, requests, thrVars>>

\* api_manager.remove_api(name)
RemoveApi ==
  /\ pc = "api" /\ ~response.called
  /\ \E name \in ApiNames : apis' = remove_api(apis, name)
  /\ UNCHANGED <<regVars, got, returned, loadVars, pc, idx, display, app, log, response, requests, thrVars>>

\* api_manager.call_api(api_name, method, path, data_template, context): the
\* client holds the response
CallApi ==
  /\ pc = "api" /\ ~response.called
  /\ \E api_name \in ApiNames, method \in CallMethods, path \in CallPaths,
        data_template \in CallTemplates, context \in CallContexts, net \in NetOutcomes :
       LET r == call_api(apis, api_name, method, path, data_template, context, net)
       IN /\ response' = [called |-> TRUE, api_name |-> api_name, method |-> method,
                          data_template |-> data_template, context |-> context,
                          result |-> r.result]
          /\ requests' = r.sent
  /\ UNCHANGED <<regVars, got, returned, loadVars, pc, idx, display, app, log, apis, thrVars>>

\* the client is done with the response and goes on to its next call
CallDone ==
  /\ pc = "api" /\ response.called
  /\ response' = NoResponse
  /\ requests' = <<>>
  /\ UNCHANGED <<regVars, got, returned, loadVars, pc, idx, display, app, log, apis, thrVars>>

NextApi == AddApi \/ RemoveApi \/ CallApi \/ CallDone

SpecApi == InitApi /\ [][NextApi]_vars

\* C10 (as claimed): a call with an unknown API name.  Whatever the other
\* arguments, the response is the not-found failure with status code 404 and
\* no request was made
C10_UnknownApiNotFound ==
  (response.called /\ response.api_name \notin DOMAIN apis) =>
    /\ response.result =
         create_response_template(FALSE, Message("API_NOT_FOUND", response.api_name), None, 404)
    /\ requests = <<>>

\* a call with an unknown API name and a method of the allow-list has returned
\* the not-found failure
C10_Witness ==
  /\ response.called
  /\ response.api_name \notin DOMAIN apis
  /\ validate_http_method(response.method)
  /\ response.result.status_code = 404

(***************************************************************************)
(* The API registry under threads: every public method of APIManager that  *)
(* touches self.apis runs its body inside "with self._lock:".  A thread    *)
(* calls a method, waits for the lock, runs the body, and leaves the with  *)
(* block, by return or by an exception; the threads interleave freely.     *)
(***************************************************************************)
MaxConfigs == 2

\* the configs argument of import_api_configs, in the order items() yields
\* them; copies is whether config.copy() works on the value
ConfigNames == <<Word.svc, Word.nope>>

Configs ==
  UNION {[1..n -> [key : {<<"k">>}, copies : BOOLEAN]] :
           n \in {m \in 0..MaxConfigs : m <= Len(ConfigNames)}}

\* the calls a thread makes; fails is an argument the body chokes on (an
\* unhashable name, a configs that is no dict)
LockCalls ==
  {[method |-> "add_api", args |-> [NoArgs EXCEPT !.name = n, !.url = <<"h">>, !.key = k, !.fails = f]] :
     n \in ApiNames, k \in ApiKeys, f \in BOOLEAN}
  \cup {[method |-> "remove_api", args |-> [NoArgs EXCEPT !.name = n, !.fails = f]] :
     n \in ApiNames, f \in BOOLEAN}
  \cup {[method |-> "get_api", args |-> [NoArgs EXCEPT !.name = n]] : n \in ApiNames}
  \cup {[method |-> "update_api_auth", args |-> [NoArgs EXCEPT !.name = n, !.key = k]] :
     n \in ApiNames, k \in ApiKeys}
  \cup {[method |-> m, args |-> NoArgs] :
     m \in {"list_apis", "clear_all_apis", "get_api_count", "export_api_configs"}}
  \cup {[method |-> "import_api_configs", args |-> [NoArgs EXCEPT !.configs = cs, !.overwrite = o]] :
     cs \in Configs, o \in BOOLEAN}
  \cup {[method |-> "import_api_configs", args |-> [NoArgs EXCEPT !.fails = TRUE]]}

\* threading.Lock.acquire returns once the lock is unlocked
acquireNoWait(l) == TRUE

acquire(l) == l = None

\* the accesses to self.apis a step of thread t makes, with the holder of the
\* lock as the step is taken
Acc(t, kinds) ==
  {[thread |-> t, object |-> "apis", kind |-> k, holder |-> _lock] : k \in kinds}

InBody(t, method) ==
  /\ pc = "lock"
  /\ threads[t].at = "body"
  /\ threads[t].method = method

\* the body ends: the return statement or the exception that leaves it
Finish(t, as, ret, raised, kinds) ==
  /\ apis' = as
  /\ threads' = [threads EXCEPT ![t].at = "exit", ![t].ret = ret, ![t].raised = raised]
  /\ accesses' = Acc(t, kinds)
  /\ UNCHANGED <<regVars, got, returned, loadVars, pc, idx, display, app, log, response, requests, _lock, after_queue>>

\* a thread calls a method of the manager
Call(t) ==
  /\ pc = "lock"
  /\ threads[t].at = "idle"
  /\ \E c \in LockCalls :
       threads' = [threads EXCEPT ![t].method = c.method, ![t].at = "acquire",
                                  ![t].args = c.args]
  /\ accesses' = {}
  /\ UNCHANGED <<regVars, got, returned, loadVars, pc, idx, display, app, log, apis, response, requests, _lock, after_queue>>

\* with self._lock: (entering)
Enter(t) ==
  /\ pc = "lock"
  /\ threads[t].at = "acquire"
  /\ acquire(_lock)
  /\ _lock' = t
  /\ threads' = [threads EXCEPT ![t].at = "body"]
  /\ accesses' = {}
  /\ UNCHANGED <<regVars, got, returned, loadVars, pc, idx, display, app, log, apis, response, requests, after_queue>>

\* with self._lock: (leaving, by return or by exception): the lock is unlocked
Exit(t) ==
  /\ pc = "lock"
  /\ threads[t].at = "exit"
  /\ _lock' = None
  /\ threads' = [threads EXCEPT ![t] = [Idle EXCEPT !.raised = threads[t].raised]]
  /\ accesses' = {}
  /\ UNCHANGED <<regVars, got, returned, loadVars, pc, idx, display, app, log, apis, response, requests, after_queue>>

\* the body of add_api: any exception is caught and False returned
AddApiBody(t) ==
  /\ InBody(t, "add_api")
  /\ LET a == threads[t].args
     IN IF a.fails THEN Finish(t, apis, <<FALSE>>, FALSE, {})
        ELSE Finish(t, add_api(apis, a.name, a.url, a.key), <<TRUE>>, FALSE, {"write"})

\* the body of remove_api
RemoveApiBody(t) ==
  /\ InBody(t, "remove_api")
  /\ LET a == threads[t].args
     IN IF a.fails THEN Finish(t, apis, <<>>, TRUE, {"read"})
        ELSE Finish(t, remove_api(apis, a.name), <<a.name \in DOMAIN apis>>, FALSE,
                    IF a.name \in DOMAIN apis THEN {"read", "write"} ELSE {"read"})

\* the body of get_api: the stored configuration, or None
GetApiBody(t) ==
  /\ InBody(t, "get_api")
  /\ LET a == threads[t].args
     IN IF a.fails THEN Finish(t, apis, <<>>, TRUE, {"read"})
        ELSE Finish(t, apis, IF a.name \in DOMAIN apis THEN <<apis[a.name]>> ELSE <<>>,
                    FALSE, {"read"})

\* the body of list_apis
ListApisBody(t) ==
  /\ InBody(t, "list_apis")
  /\ Finish(t, apis, <<apis>>, FALSE, {"read"})

\* the body of update_api_auth
UpdateApiAuthBody(t) ==
  /\ InBody(t, "update_api_auth")
  /\ LET a == threads[t].args
     IN IF a.fails THEN Finish(t, apis, <<>>, TRUE, {"read"})
        ELSE Finish(t, update_api_auth(apis, a.name, a.key), <<a.name \in DOMAIN apis>>, FALSE,
                    IF a.name \in DOMAIN apis /\ a.key # <<>> THEN {"read", "write"}
                    ELSE {"read"})

\* the body of clear_all_apis
ClearAllApisBody(t) ==
  /\ InBody(t, "clear_all_apis")
  /\ Finish(t, <<>>, <<>>, FALSE, {"write"})

\* the body of get_api_count
GetApiCountBody(t) ==
  /\ InBody(t, "get_api_count")
  /\ Finish(t, apis, <<Cardinality(DOMAIN apis)>>, FALSE, {"read"})

\* the body of export_api_configs
ExportApiConfigsBody(t) ==
  /\ InBody(t, "export_api_configs")
  /\ Finish(t, apis, <<apis>>, FALSE, {"read"})

\* import_api_configs: success_count so far
SuccessCount(t) == IF threads[t].ret = <<>> THEN 0 ELSE threads[t].ret[1]

\* import_api_configs: configs.items() raises on a configs that is no dict
ImportFails(t) ==
  /\ InBody(t, "import_api_configs")
  /\ threads[t].args.fails
  /\ Finish(t, apis, <<>>, TRUE, {})

\* import_api_configs: one iteration of the loop over configs.items()
ImportItem(t) ==
  /\ InBody(t, "import_api_configs")
  /\ ~threads[t].args.fails
  /\ threads[t].i <= Len(threads[t].args.configs)
  /\ LET a      == threads[t].args
         item   == a.configs[threads[t].i]
         name   == ConfigNames[threads[t].i]
         stores == a.overwrite \/ name \notin DOMAIN apis
         done   == stores /\ item.copies
     IN /\ apis' = IF done THEN DictSet(apis, name,
                                        [url |-> <<>>, key |-> item.key, username |-> <<>>,
                                         password |-> <<>>, show_secret |-> FALSE])
                   ELSE apis
        /\ threads' = [threads EXCEPT ![t].i = @ + 1,
                                      ![t].ret = <<SuccessCount(t) + (IF done THEN 1 ELSE 0)>>]
        /\ accesses' = Acc(t, (IF a.overwrite THEN {} ELSE {"read"})
                              \cup (IF done THEN {"write"} ELSE {}))
  /\ UNCHANGED <<regVars, got, returned, loadVars, pc, idx, display, app, log, response, requests, _lock, after_queue>>

\* import_api_configs: the loop is over, success_count is returned
ImportEnd(t) ==
  /\ InBody(t, "import_api_configs")
  /\ ~threads[t].args.fails
  /\ threads[t].i > Len(threads[t].args.configs)
  /\ Finish(t, apis, <<SuccessCount(t)>>, FALSE, {})

InitLock ==
  /\ handlers = StartupHandlers
  /\ aliases = <<>>
  /\ registered = RegisteredBy(StartupHandlers)
  /\ got = NoCall
  /\ script = <<>>
  /\ line_num = 0
  /\ cmds = <<>>
  /\ pc = "lock"
  /\ idx = 1
  /\ display = FALSE
  /\ app = NewApp
  /\ log = <<>>
  /\ apis = <<>>
  /\ response = NoResponse
  /\ requests = <<>>
  /\ InitThreads
  /\ returned = NoReturn

NextLock ==
  \E t \in Threads :
    \/ Call(t) \/ Enter(t) \/ Exit(t)
    \/ AddApiBody(t) \/ RemoveApiBody(t) \/ GetApiBody(t) \/ ListApisBody(t)
    \/ UpdateApiAuthBody(t) \/ ClearAllApisBody(t) \/ GetApiCountBody(t)
    \/ ExportApiConfigsBody(t)
    \/ ImportFails(t) \/ ImportItem(t) \/ ImportEnd(t)

SpecLock == InitLock /\ [][NextLock]_vars

\* C11: at most one thread is inside the body of a lock-guarded method of the
\* API registry at any time, every read or write of the mapping is made by
\* the thread that holds the lock, and a thread that has left a body, by
\* return or by failure, does not hold the lock
C11_RegistryMutualExclusion ==
  /\ Cardinality({t \in Threads : threads[t].at \in {"body", "exit"}}) <= 1
  /\ \A a \in accesses : a.object = "apis" => a.holder = a.thread
  /\ \A t \in Threads : threads[t].at \in {"idle", "acquire"} => _lock # t

\* a thread is in the middle of the import loop and holds the lock, while the
\* other thread, whose previous call left its body by an exception, waits
C11_Witness ==
  \E t, u \in Threads :
    /\ t # u
    /\ threads[t].at = "body" /\ threads[t].method = "import_api_configs"
    /\ threads[t].i = 2
    /\ _lock = t
    /\ threads[u].at = "acquire" /\ threads[u].raised

(***************************************************************************)
(* The api-call handler and the click it binds: on_click runs on the       *)
(* thread of the event loop, call_api_task on a thread of its own, and     *)
(* update_ui wherever call_api_task puts it.                               *)
(***************************************************************************)
MaxPending == 2

\* str(result) of a response, shortened to its success flag and status code
StrOfResult(result) ==
  <<"{", IF result.success THEN "T" ELSE "F", ":">>
    \o (IF result.status_code = 200 THEN <<"2", "0", "0">>
        ELSE IF result.status_code = 400 THEN <<"4", "0", "0">>
        ELSE IF result.status_code = 404 THEN <<"4", "0", "4">>
        ELSE <<"5", "0", "0">>)
    \o <<"}">>

\* _update_target_widget(app, target, result)
_update_target_widget(a, target, result) ==
  LET d == DotIndex(target) IN
  IF d = 0 THEN [a EXCEPT !.attrs = DictSet(@, target, result)]
  ELSE
    LET widget_name == SubSeq(target, 1, d - 1)
        attr        == DropFirst(target, d)
    IN IF widget_name \notin DOMAIN a.controls THEN a
       ELSE IF attr = Widget.text THEN [a EXCEPT !.controls[widget_name].text = StrOfResult(result)]
       ELSE IF attr = Widget.value /\ a.controls[widget_name].class = "Entry"
         THEN [a EXCEPT !.controls[widget_name].value = StrOfResult(result)]
       ELSE a

\* update_ui(): the state it leaves, and the objects it reads or writes
update_ui(a, target, result) ==
  IF target # <<>> THEN _update_target_widget(a, target, result) ELSE a

UpdateUiTouches(a, target, result) ==
  IF target = <<>> THEN {"app"} \cup (IF a.root THEN {"widget"} ELSE {})
  ELSE {"app"} \cup (IF update_ui(a, target, result).controls # a.controls
                      THEN {"widget"} ELSE {})

\* call_api_task: if app.root: app.root.after(0, update_ui) else: update_ui()
MarshalsNever(a) == FALSE

Marshals(a) == a.root

\* the accesses a step of thread t makes to the objects of the user interface
UiAcc(t, objects, kind) ==
  {[thread |-> t, object |-> o, kind |-> kind, holder |-> _lock] : o \in objects}

\* the scripts that lead to the state the event loop starts in: a window, a
\* button, an entry, an api-call on the button, and possibly a later window
\* instruction whose window cannot be created
WinArgs == <<Word.win, <<"1">>, <<"1">>, <<"t">>>>

ApiCallRest ==
  {<<>>, <<<<"{", "v", "}">>>>, <<Arrow>>}
  \cup {r \o <<Arrow, t>> : r \in {<<>>, <<<<"{", "v", "}">>>>},
                            t \in {<<"v", ".">> \o Widget.value, <<"b", ".">> \o Widget.text,
                                   <<"x">>, <<"z", ".">> \o Widget.text}}

ApiCallArgs ==
  {<<<<"b">>, Word.svc, m, <<"/", "x">>>> \o r : m \in {Method.GET, <<"F", "E", "T", "C", "H">>},
                                                r \in ApiCallRest}

BuiltApp(disp, args, later_fails) ==
  LET a1 == cmd_window(NewApp, WinArgs, disp).app
      a2 == cmd_control(a1, <<Widget.button, <<"b">>>>).app
      a3 == cmd_control(a2, <<Widget.entry, <<"v">>>>).app
      a4 == handle_api_call(a3, args).app
  IN IF later_fails THEN cmd_window(a4, WinArgs, FALSE).app ELSE a4

InitHandoff ==
  /\ handlers = StartupHandlers
  /\ aliases = <<>>
  /\ registered = RegisteredBy(StartupHandlers)
  /\ got = NoCall
  /\ script = <<>>
  /\ line_num = 0
  /\ cmds = <<>>
  /\ pc = "run"
  /\ idx = 1
  /\ display \in BOOLEAN
  /\ \E args \in ApiCallArgs, later_fails \in BOOLEAN : app = BuiltApp(display, args, later_fails)
  /\ log = <<>>
  /\ apis \in {<<>>, add_api(<<>>, Word.svc, <<"h">>, <<>>)}
  /\ response = NoResponse
  /\ requests = <<>>
  /\ InitThreads
  /\ returned = NoReturn

\* MenuApp.run: the event loop runs only on a window
Run ==
  /\ pc = "run"
  /\ pc' = IF app.root THEN "mainloop" ELSE "done"
  /\ accesses' = {}
  /\ UNCHANGED <<regVars, got, returned, loadVars, idx, display, app, log, apis, response, requests,
                 _lock, threads, after_queue>>

\* the user types into an entry while the event loop runs
TypeValue ==
  /\ pc = "mainloop"
  /\ \E name \in DOMAIN app.controls, val \in {<<>>, <<"1">>} :
       /\ app.controls[name].class = "Entry"
       /\ app.controls[name].value # val
       /\ app' = [app EXCEPT !.controls[name].value = val]
  /\ accesses' = {}
  /\ UNCHANGED <<regVars, got, returned, loadVars, pc, idx, display, log, apis, response, requests,
                 _lock, threads, after_queue>>

\* the user clicks the button: on_click snapshots the controls that have a
\* get() and starts the thread of call_api_task (one call in flight and at
\* most MaxPending callbacks waiting at a time)
Click ==
  /\ pc = "mainloop"
  /\ threads["Thread-1"].at = "idle"
  /\ Len(after_queue) < MaxPending
  /\ \E btn \in DOMAIN app.controls :
       LET cb  == app.controls[btn].command
           ctx == [n \in {m \in DOMAIN app.controls : app.controls[m].class = "Entry"} |->
                     app.controls[n].value]
       IN /\ cb.kind = "api_call"
          /\ threads' = [threads EXCEPT !["Thread-1"] =
               [method |-> "call_api_task", at |-> "call_api",
                args |-> [api_name |-> cb.templates[1], method |-> cb.templates[2],
                          path |-> cb.templates[3], data_template |-> cb.templates[4],
                          ctx |-> ctx, target |-> cb.action],
                i |-> 1, ret |-> <<>>, raised |-> FALSE]]
  /\ accesses' = UiAcc("MainThread", {"app", "widget"}, "read")
  /\ UNCHANGED <<regVars, got, returned, loadVars, pc, idx, display, app, log, apis, response, requests,
                 _lock, after_queue>>

\* call_api_task: result = api_manager.call_api(...)
CallApiTask ==
  /\ pc \in {"mainloop", "done"}
  /\ threads["Thread-1"].at = "call_api"
  /\ \E net \in NetOutcomes :
       LET c == threads["Thread-1"].args
           r == call_api(apis, c.api_name, c.method, c.path, c.data_template, c.ctx, net)
       IN /\ threads' = [threads EXCEPT !["Thread-1"].at = "deliver",
                                        !["Thread-1"].ret = <<r.result>>]
          /\ requests' = r.sent
  /\ accesses' = {}
  /\ UNCHANGED <<regVars, got, returned, loadVars, pc, idx, display, app, log, apis, response,
                 _lock, after_queue>>

\* call_api_task: update_ui is given to root.after, or called here when
\* there is no root; root.after raises once the event loop has ended, and so
\* does the except branch that reports it
Marshal ==
  /\ pc \in {"mainloop", "done"}
  /\ threads["Thread-1"].at = "deliver"
  /\ LET c      == threads["Thread-1"].args
         result == threads["Thread-1"].ret[1]
     IN IF Marshals(app)
          THEN /\ after_queue' = IF pc = "mainloop"
                                   THEN Append(after_queue, [target |-> c.target, result |-> result])
                                   ELSE after_queue
               /\ threads' = [threads EXCEPT !["Thread-1"] = [Idle EXCEPT !.raised = (pc = "done")]]
               /\ accesses' = UiAcc("Thread-1", {"root"}, "after")
               /\ app' = app
          ELSE /\ app' = update_ui(app, c.target, result)
               /\ threads' = [threads EXCEPT !["Thread-1"] = Idle]
               /\ accesses' = UiAcc("Thread-1", UpdateUiTouches(app, c.target, result), "write")
               /\ after_queue' = after_queue
  /\ UNCHANGED <<regVars, got, returned, loadVars, pc, idx, display, log, apis, response, requests, _lock>>

\* the event loop runs the oldest callback root.after was given
UpdateUi ==
  /\ pc = "mainloop"
  /\ after_queue # <<>>
  /\ LET cb == Head(after_queue)
     IN /\ app' = update_ui(app, cb.target, cb.result)
        /\ accesses' = UiAcc("MainThread", UpdateUiTouches(app, cb.target, cb.result), "write")
  /\ after_queue' = Tail(after_queue)
  /\ UNCHANGED <<regVars, got, returned, loadVars, pc, idx, display, log, apis, response, requests,
                 _lock, threads>>

\* the user closes the window: mainloop returns
Close ==
  /\ pc = "mainloop"
  /\ pc' = "done"
  /\ accesses' = {}
  /\ UNCHANGED <<regVars, got, returned, loadVars, idx, display, app, log, apis, response, requests,
                 _lock, threads, after_queue>>

NextHandoff == Run \/ TypeValue \/ Click \/ CallApiTask \/ Marshal \/ UpdateUi \/ Close

SpecHandoff == InitHandoff /\ [][NextHandoff]_vars

Contains(s, w) == \E i \in 1..(Len(s) - Len(w) + 1) : SubSeq(s, i, i + Len(w) - 1) = w

Dangerous == {<<"i", "m", "p", "o", "r", "t">>, <<"e", "x", "e", "c">>,
              <<"e", "v", "a", "l">>, <<"o", "p", "e", "n">>}

\* a result of safe_eval_expression: None, or a value
NoneResult == [none |-> TRUE, value |-> <<>>]
Value(v)   == [none |-> FALSE, value |-> v]

\* eval(expression, {"__builtins__": safe_builtins}, eval_context) for the
\* expressions of the model: an integer literal, a name, or a text that
\* raises (SyntaxError, NameError)
Eval(expression, eval_context) ==
  LET e == StripChars(expression, {" "}) IN
  IF e # <<>> /\ \A i \in DOMAIN e : e[i] \in DigitChars THEN [raised |-> FALSE, value |-> e]
  ELSE IF e \in DOMAIN eval_context THEN [raised |-> FALSE, value |-> eval_context[e]]
  ELSE [raised |-> TRUE, value |-> <<>>]

\* the check on the expression that comes before any evaluation
HasDangerousNever(expression) == FALSE

HasDangerous(expression) == \E op \in Dangerous : Contains(expression, op)

\* safe_eval_expression(expression, context): the result, whether eval ran,
\* the context entries whose get() was called, and whether an exception left
\* the function
safe_eval_expression(expression, context) ==
  IF expression = <<>> THEN
    [result |-> NoneResult, evaluated |-> FALSE, read |-> {}, raised |-> FALSE]
  ELSE IF HasDangerous(expression) THEN
    [result |-> NoneResult, evaluated |-> FALSE, read |-> {}, raised |-> FALSE]
  ELSE
    LET widgets      == {k \in DOMAIN context : context[k].widget}
        eval_context == [k \in DOMAIN context |->
                           IF context[k].widget /\ ~context[k].gets
                             THEN <<"s", "t", "r">>      \* str(value)
                             ELSE context[k].value]
        r            == Eval(expression, eval_context)
    IN [result |-> IF r.raised THEN NoneResult ELSE Value(r.value),
        evaluated |-> TRUE, read |-> widgets, raised |-> FALSE]

\* the expressions of the model: up to MaxParts pieces, one after the other
MaxParts == 3

ExprParts == Dangerous \cup {<<"x">>, <<"1">>, <<" ">>, <<"O", "p", "e", "n">>}

RECURSIVE Concat(_)
Concat(parts) == IF parts = <<>> THEN <<>> ELSE Head(parts) \o Concat(Tail(parts))

Expressions == {Concat(ps) : ps \in SeqUpTo(ExprParts, MaxParts)}

\* the contexts: empty, a control whose get() works, one whose get() raises,
\* and a plain value
EvalContexts ==
  {<<>>} \cup {[k \in {<<"x">>} |-> c] :
                 c \in {[widget |-> TRUE, gets |-> TRUE, value |-> <<"7">>],
                        [widget |-> TRUE, gets |-> FALSE, value |-> <<>>],
                        [widget |-> FALSE, gets |-> FALSE, value |-> <<"8">>]}}

InitEval ==
  /\ handlers = StartupHandlers
  /\ aliases = <<>>
  /\ registered = RegisteredBy(StartupHandlers)
  /\ got = NoCall
  /\ script = <<>>
  /\ line_num = 0
  /\ cmds = <<>>
  /\ pc = "eval"
  /\ idx = 1
  /\ display = FALSE
  /\ app = NewApp
  /\ log = <<>>
  /\ apis = <<>>
  /\ response = NoResponse
  /\ requests = <<>>
  /\ InitThreads
  /\ returned = NoReturn

\* val = safe_eval_expression(rhs, ctx)
SafeEval ==
  /\ pc = "eval" /\ ~returned.called
  /\ \E expression \in Expressions, context \in EvalContexts :
       returned' = [called |-> TRUE, expression |-> expression, context |-> context,
                    out |-> safe_eval_expression(expression, context)]
  /\ UNCHANGED <<regVars, got, loadVars, pc, idx, display, app, log, apiVars>>

\* the caller is done with the value
SafeEvalDone ==
  /\ pc = "eval" /\ returned.called
  /\ returned' = NoReturn
  /\ UNCHANGED <<regVars, got, loadVars, pc, idx, display, app, log, apiVars>>

NextEval == SafeEval \/ SafeEvalDone

SpecEval == InitEval /\ [][NextEval]_vars

\* C13: for an expression that contains import, exec, eval or open, whatever
\* the context, safe_eval_expression returns None, does not call eval, calls
\* get() on no control and does not raise
C13_UnsafeExpressionRejected ==
  (returned.called /\ \E op \in Dangerous : Contains(returned.expression, op)) =>
    /\ returned.out.result = NoneResult
    /\ ~returned.out.evaluated
    /\ returned.out.read = {}
    /\ ~returned.out.raised

\* an expression with open in the middle was given with a control in the
\* context and rejected
C13_Witness ==
  /\ returned.called
  /\ returned.expression = <<"x", "o", "p", "e", "n", "1">>
  /\ \E k \in DOMAIN returned.context : returned.context[k].widget
  /\ returned.out.result = NoneResult

(***************************************************************************)
(* MenuApp.handle_binding (core/menu_app.py), the interpreter of the       *)
(* action of an event binding, called by the event loop.                   *)
(***************************************************************************)
\* the attributes of MenuApp a "name()" action can name: a method that runs
\* without arguments, methods that need one (TypeError), and a field that is
\* not callable
AppAttr == [load_script |-> <<"l", "o", "a", "d", "_", "s", "c", "r", "i", "p", "t">>,
            get_control |-> <<"g", "e", "t", "_", "c", "o", "n", "t", "r", "o", "l">>,
            controls |-> <<"c", "o", "n", "t", "r", "o", "l", "s">>,
            content |-> <<"c", "o", "n", "t", "e", "n", "t">>]

\* handler = registry.get(name.lower()); if handler: handler(self)
BindingDispatch(a, hs, al, name, disp) ==
  LET handler == get(hs, al, Lower(name)) IN
  IF handler = None THEN Returned(a) ELSE CallHandler(handler, a, <<>>, disp)

\* str(val)
StrOfValue(val) == IF val.none THEN <<"N", "o", "n", "e">> ELSE val.value

\* the assignment form "target.attr = expr": val = safe_eval_expression(rhs,
\* ctx), where ctx holds the value of every control that has get() and the
\* widget otherwise; tk_fails is whether the toolkit
\* refuses the update of the widget (TclError)
BindingValue(a, action) ==
  LET rhs == Strip(DropFirst(action, EqIndex(action)))
      ctx == [n \in DOMAIN a.controls |->
                [widget |-> FALSE, gets |-> FALSE,
                 value |-> IF a.controls[n].class = "Entry" THEN a.controls[n].value
                           ELSE <<".">> \o n]]
  IN safe_eval_expression(rhs, ctx).result

BindingAssign(a, action, tk_fails) ==
  LET eq     == EqIndex(action)
      lhs    == Strip(SubSeq(action, 1, eq - 1))
      d      == DotIndex(lhs)
      target == IF d > 0 THEN Strip(SubSeq(lhs, 1, d - 1)) ELSE lhs
      attr   == IF d > 0 THEN Strip(DropFirst(lhs, d)) ELSE Widget.value
      val    == StrOfValue(BindingValue(a, action))
  IN IF target \notin DOMAIN a.controls THEN Returned(a)
     ELSE IF attr = Widget.text
       THEN IF tk_fails THEN Raised(a)
            ELSE Returned([a EXCEPT !.controls[target].text = val])
     ELSE IF attr = Widget.value /\ a.controls[target].class = "Entry"
       THEN IF tk_fails THEN Raised(a)
            ELSE Returned([a EXCEPT !.controls[target].value = val])
     ELSE IF attr = AppAttr.content /\ a.controls[target].class = "Entry"
       THEN Raised(a)                  \* TclError: an Entry has no index 1.0
     ELSE Returned(a)                  \* setattr(widget, attr, val)

\* the body of the try block of handle_binding
BindingBody(a, hs, al, action0, disp, tk_fails) ==
  LET action == Strip(action0)
      n      == Len(action)
  IN IF n >= 2 /\ SubSeq(action, n - 1, n) = <<"(", ")">> THEN
       LET func_name == SubSeq(action, 1, n - 2) IN
       IF func_name = AppAttr.load_script THEN Returned(a)
       ELSE IF func_name = AppAttr.get_control THEN Raised(a)
       ELSE BindingDispatch(a, hs, al, func_name, disp)
     ELSE IF action # <<>> /\ EqIndex(action) = 0 THEN BindingDispatch(a, hs, al, action, disp)
     ELSE IF EqIndex(action) > 0 THEN BindingAssign(a, action, tk_fails)
     ELSE Returned(a)

\* handle_binding(action): what it leaves, whether an exception left it, and
\* whether the except clause was entered
handle_bindingNoCatch(a, hs, al, action, disp, tk_fails) ==
  LET r == BindingBody(a, hs, al, action, disp, tk_fails) IN
  [app |-> r.app, raised |-> r.raised, caught |-> FALSE]

handle_binding(a, hs, al, action, disp, tk_fails) ==
  LET r == BindingBody(a, hs, al, action, disp, tk_fails) IN
  [app |-> r.app, raised |-> FALSE, caught |-> r.raised]

\* the actions of the model
BindingActions ==
  {f \o <<"(", ")">> : f \in {AppAttr.load_script, AppAttr.get_control, AppAttr.controls,
                               <<"c", "l", "e", "a", "r">>, <<"S", "t", "y", "l", "e">>,
                               Word.nope, <<>>}}
  \cup {<<"c", "l", "e", "a", "r">>, Word.style, <<"c", "o", "n", "t", "r", "o", "l">>,
        Word.nope, <<>>, <<" ">>, <<"c", "l", "e", "a", "r", " ", "x">>,
        <<"g", "r", "i", "d", "-", "s", "e", "t", "u", "p">>}
  \cup {t \o <<" ", "=", " ">> \o e :
          t \in {<<"b", ".">> \o Widget.text, <<"v", ".">> \o Widget.value, <<"v">>,
                 <<"z", ".">> \o Widget.text, <<"v", ".">> \o AppAttr.content,
                 <<"b", ".">> \o <<"x">>, <<>>},
          e \in {<<"1">>, <<"v">>, <<"1", " ", "1">>, <<"o", "p", "e", "n">>, <<>>,
                 <<"=">>}}

\* the application state is the state a build leaves: a button b, an entry
\* v, a style class, a recorded binding, a recorded exec template and a popup
\* window; without a display, the style and the two records only
EventLoopApp(disp) ==
  LET a1 == BuiltApp(disp, <<<<"b">>, Word.svc, Method.GET, <<"/", "x">>>>, FALSE)
      a2 == cmd_style(a1, <<<<"c">>, <<"f", "g", "=", "r">>>>).app
      a3 == cmd_binding(a2, <<<<"b">>, Event.click, <<"x">>>>).app
      a4 == cmd_exec(a3, <<<<"b">>, <<"e">>>>).app
  IN cmd_popup_window(a4, <<<<"p">>, <<"t">>>>).app

InitBinding ==
  /\ handlers = StartupHandlers
  /\ aliases = <<>>
  /\ registered = RegisteredBy(StartupHandlers)
  /\ got = NoCall
  /\ script = <<>>
  /\ line_num = 0
  /\ cmds = <<>>
  /\ pc = "binding"
  /\ idx = 1
  /\ display \in BOOLEAN
  /\ app = EventLoopApp(display)
  /\ log = <<>>
  /\ apis = <<>>
  /\ response = NoResponse
  /\ requests = <<>>
  /\ InitThreads
  /\ returned = NoReturn

\* the event loop calls app.handle_binding(action) for an event
HandleBinding ==
  /\ pc = "binding" /\ ~returned.called
  /\ \E action \in BindingActions, tk_fails \in BOOLEAN :
       LET r == handle_binding(app, handlers, aliases, action, display, tk_fails)
       IN /\ app' = r.app
          /\ returned' = [called |-> TRUE, action |-> action, raised |-> r.raised,
                          caught |-> r.caught]
  /\ UNCHANGED <<regVars, got, loadVars, pc, idx, display, log, apiVars>>

\* the event loop goes on to the next event
BindingDone ==
  /\ pc = "binding" /\ returned.called
  /\ returned' = NoReturn
  /\ UNCHANGED <<regVars, got, loadVars, pc, idx, display, app, log, apiVars>>

NextBinding == HandleBinding \/ BindingDone

SpecBinding == InitBinding /\ [][NextBinding]_vars

\* C14: handle_binding returns normally for every action string and every
\* application state: no exception leaves it, whether the method or the
\* handler it calls raises, the expression is malformed, the target control
\* is missing or the update of the widget fails
C14_BindingNeverPropagates == returned.called => ~returned.raised

\* a call in which something raised inside handle_binding has returned
C14_Witness == returned.called /\ returned.caught /\ ~returned.raised

(***************************************************************************)
(* main (main.py): the script path of the command line is validated, a     *)
(* MenuApp is constructed on the script (which loads it), build_ui runs    *)
(* the phases of the engine specification, and run returns when the event  *)
(* loop ends.                                                              *)
(***************************************************************************)
\* validate_script_path(args.script): the path, or None for no argument and
\* for a path that does not exist
validate_script_path(given, exists) == IF given /\ exists THEN "requested" ELSE None

\* find_default_script(): the first default path that exists, or None
find_default_script(default_exists) == IF default_exists THEN "default" ELSE None

\* the script main goes on with, None when it returns 1 instead
ScriptPath(given, exists, default_exists) ==
  IF validate_script_path(given, exists) # None THEN validate_script_path(given, exists)
  ELSE find_default_script(default_exists)

\* the files on disk: the script at the requested path, with a window and a
\* control and up to MaxLines more lines, and the default script
MainScripts == {<<Line.win, Line.ctrl>> \o b : b \in SeqUpTo(BodyLines, MaxLines)}

DefaultScript == <<Line.win, Line.style>>

\* the frame of main: its command line and environment, the script path it
\* settled on, and its exit code once it has returned
MainFrames ==
  {[method |-> "main", at |-> "start",
    args |-> [given |-> g, exists |-> e, requested |-> r, default_exists |-> d,
              init_ok |-> ok, script_path |-> None],
    i |-> 1, ret |-> <<>>, raised |-> FALSE] :
     g \in BOOLEAN, e \in BOOLEAN, d \in BOOLEAN, ok \in BOOLEAN, r \in MainScripts}

InitMain ==
  /\ handlers = StartupHandlers
  /\ aliases = <<>>
  /\ registered = RegisteredBy(StartupHandlers)
  /\ got = NoCall
  /\ script = <<>>
  /\ line_num = 0
  /\ cmds = <<>>
  /\ pc = "main"
  /\ idx = 1
  /\ display \in BOOLEAN
  /\ app = NewApp
  /\ log = <<>>
  /\ apis = <<>>
  /\ response = NoResponse
  /\ requests = <<>>
  /\ _lock = None
  /\ \E m \in MainFrames :
       /\ m.args.given \/ ~m.args.exists
       /\ m.args.exists \/ m.args.requested = <<Line.win, Line.ctrl>>
       /\ threads = [t \in Threads |-> IF t = "MainThread" THEN m ELSE Idle]
  /\ accesses = {}
  /\ after_queue = <<>>
  /\ returned = NoReturn

\* main up to app = MenuApp(str(script_path)): return 1 when the system does
\* not initialize or there is no script to go on with; otherwise the
\* constructor loads the script
MainStart ==
  /\ pc = "main"
  /\ LET f    == threads["MainThread"].args
         path == ScriptPath(f.given, f.exists, f.default_exists)
     IN IF ~f.init_ok \/ path = None
          THEN /\ pc' = "exit"
               /\ threads' = [threads EXCEPT !["MainThread"].at = "returned",
                                             !["MainThread"].ret = <<1>>]
               /\ UNCHANGED loadVars
          ELSE /\ pc' = "basic"
               /\ threads' = [threads EXCEPT !["MainThread"].at = "build_ui",
                                             !["MainThread"].args.script_path = path]
               /\ script' = IF path = "requested" THEN f.requested ELSE DefaultScript
               /\ line_num' = Len(script')
               /\ cmds' = load_script(script')
  /\ UNCHANGED <<regVars, got, returned, idx, display, app, log, apis, response, requests,
                 _lock, accesses, after_queue>>

\* app.run() after build_ui, and return 0
MainRun ==
  /\ pc = "done"
  /\ threads["MainThread"].method = "main"
  /\ pc' = "exit"
  /\ threads' = [threads EXCEPT !["MainThread"].at = "returned", !["MainThread"].ret = <<0>>]
  /\ UNCHANGED <<regVars, got, returned, loadVars, idx, display, app, log, apis, response,
                 requests, _lock, accesses, after_queue>>

NextMain == MainStart \/ MainRun \/ Next

SpecMain == InitMain /\ [][NextMain]_vars

\* C15 (as claimed): when the script path given on the command line does
\* not exist, no script is loaded or executed and main returns 1; and main
\* returns 0 only after the script at the requested path, which exists, was
\* loaded and run
C15_MissingScriptExitsOne ==
  LET m == threads["MainThread"] IN
  /\ (m.args.given /\ ~m.args.exists) =>
       /\ script = <<>> /\ cmds = <<>> /\ log = <<>>
       /\ pc = "exit" => m.ret = <<1>>
  /\ (pc = "exit" /\ m.ret = <<0>>) =>
       /\ m.args.given /\ m.args.exists
       /\ script = m.args.requested

\* the path given does not exist, the default script was loaded and run in
\* its place, and main has returned 0
C15_Witness ==
  LET m == threads["MainThread"] IN
  /\ m.args.given /\ ~m.args.exists
  /\ pc = "exit" /\ m.ret = <<0>>
  /\ script = DefaultScript
  /\ log # <<>>

\* C16 (as claimed): immediately after a clear instruction has executed,
\* controls, styles, exec-bindings, event-bindings, display areas, popups
\* and the grid configuration of the application state are all empty or
\* unset, so that nothing recorded before the clear is left for the binding
\* phases to install
C16_ClearResetsState ==
  (returned.called /\ Lower(Strip(returned.action)) = <<"c", "l", "e", "a", "r">>) =>
    /\ app.controls = <<>>
    /\ app.styles = <<>>
    /\ app.exec_map = <<>>
    /\ app.binding_list = <<>>
    /\ app.display_areas = <<>>
    /\ app.popup_windows = <<>>
    /\ app.grid_cfg = <<>>

\* clear has executed in a state with a popup window, and the popup is still
\* in the application state while the controls are gone
C16_Witness ==
  /\ returned.called /\ returned.action = <<"c", "l", "e", "a", "r">>
  /\ app.controls = <<>> /\ app.exec_map = <<>> /\ app.binding_list = <<>>
  /\ app.popup_windows # <<>>

(***************************************************************************)
(* The headless specification: build_ui on scripts whose window            *)
(* instructions can fail (no display, or a size Tk rejects), followed by   *)
(* widget-creating instructions                                            *)
(***************************************************************************)
HeadlessLine ==
  [win_bad |-> JoinSp(<<Word.menu, <<"w", "i", "n", "d", "o", "w">>, <<"w">>, <<"-", "1">>, <<"1">>, <<"t">>>>),
   display_area |-> JoinSp(<<Word.menu, <<"d", "i", "s", "p", "l", "a", "y", "-", "a", "r", "e", "a">>,
                             <<"d">>, <<"0">>, <<"0">>, <<"1">>, <<"1">>>>),
   workspace |-> JoinSp(<<Word.menu, <<"w", "o", "r", "k", "s", "p", "a", "c", "e">>, <<"s">>>>),
   workspace_add |-> JoinSp(<<Word.menu, <<"w", "o", "r", "k", "s", "p", "a", "c", "e", "-", "a", "d", "d">>,
                              <<"s">>, Widget.button, <<"c">>>>),
   emoji_picker |-> JoinSp(<<Word.menu, <<"e", "m", "o", "j", "i", "-", "p", "i", "c", "k", "e", "r">>,
                             <<"e">>, <<"0">>, <<"0">>, <<"1">>, <<"1">>>>)]

HeadlessLines ==
  { Line.win, HeadlessLine.win_bad, Line.ctrl, HeadlessLine.display_area,
    HeadlessLine.workspace, HeadlessLine.workspace_add, HeadlessLine.emoji_picker,
    Line.popup_window }

\* the longest script of the headless specification, in lines, before the
\* two lines that record an exec template and a binding
MaxHeadlessLines == 4

HeadlessScripts ==
  {b \o <<Line.exec, Line.bind_click>> : b \in SeqUpTo(HeadlessLines, MaxHeadlessLines)}

InitHeadless ==
  /\ handlers = StartupHandlers
  /\ aliases = <<>>
  /\ registered = RegisteredBy(StartupHandlers)
  /\ got = NoCall
  /\ script \in HeadlessScripts
  /\ line_num = Len(script)
  /\ cmds = load_script(script)
  /\ pc = "basic"
  /\ idx = 1
  /\ display \in BOOLEAN
  /\ app = NewApp
  /\ log = <<>>
  /\ apis = <<>>
  /\ response = NoResponse
  /\ requests = <<>>
  /\ InitThreads
  /\ returned = NoReturn

SpecHeadless == InitHeadless /\ [][Next]_vars

\* the handlers of the widget-creating instructions
WidgetCreating ==
  {"cmd_control", "cmd_display_area", "cmd_popup_window", "cmd_workspace",
   "cmd_workspace_add", "cmd_emoji_picker"}

\* the window instruction at position i of cmds cannot create its window
WindowFails(i) ==
  /\ Len(cmds[i]) >= 5
  /\ ~display \/ GeometryFails(parse_size_string(cmds[i][3], cmds[i][4]))

\* C17: a window instruction whose window cannot be created leaves the root
\* None, does not raise and does not stop the run; and a widget-creating
\* instruction (control, display area, popup-window, workspace, workspace-add,
\* emoji-picker) that runs while the root is None adds no entry to controls,
\* display areas, popups or workspaces and does not raise
C17_HeadlessDegradation ==
  [][log' # log =>
       LET e == log'[Len(log')] IN
       /\ (e.func = "cmd_window" /\ WindowFails(e.i)) =>
             ~app'.root /\ ~e.raised /\ pc' # "failed"
       /\ (e.func \in WidgetCreating /\ ~app.root) =>
             /\ ~e.raised
             /\ DOMAIN app'.controls \subseteq DOMAIN app.controls
             /\ DOMAIN app'.display_areas \subseteq DOMAIN app.display_areas
             /\ DOMAIN app'.popup_windows \subseteq DOMAIN app.popup_windows
             /\ DOMAIN app'.workspaces \subseteq DOMAIN app.workspaces]_vars

\* a window instruction failed, the root is None, a control instruction ran
\* after it and controls is empty
C17_Witness ==
  /\ ~app.root
  /\ app.controls = <<>>
  /\ \E j, k \in 1..Len(log) :
       /\ j < k
       /\ log[j].func = "cmd_window" /\ WindowFails(log[j].i) /\ ~log[j].raised
       /\ log[k].func = "cmd_control" /\ ~log[k].raised

(***************************************************************************)
(* The tokenizer specification: parse_command_line applied to one line     *)
(***************************************************************************)
\* the longest line of the tokenizer specification, in characters after the
\* optional directive prefix
MaxTokLen == 4

TokChars == {"#", " ", "a", "'", "\""}

TokLines ==
  {prefix \o t : prefix \in {<<>>, MenuPrefix}, t \in SeqUpTo(TokChars, MaxTokLen)}

\* a call of parse_command_line: the tokens it returns and whether an
\* exception leaves it; shlex.split raises ValueError on an open quote and
\* catch tells whether the except clause around it is there
ParseCall(line0, catch) ==
  LET line == Strip(IF StartsWith(line0, MenuPrefix)
                      THEN DropFirst(line0, Len(MenuPrefix)) ELSE line0)
      fell_back == line # <<>> /\ ~shlex_split(line).ok
  IN [tokens    |-> IF fell_back /\ ~catch THEN <<>> ELSE parse_command_line(line0),
      fell_back |-> fell_back,
      raised    |-> fell_back /\ ~catch]

InitTok ==
  /\ handlers = StartupHandlers
  /\ aliases = <<>>
  /\ registered = RegisteredBy(StartupHandlers)
  /\ got = NoCall
  /\ \E line \in TokLines : script = <<line>>
  /\ line_num = 0
  /\ cmds = <<>>
  /\ pc = "tok"
  /\ idx = 1
  /\ display = FALSE
  /\ app = NewApp
  /\ log = <<>>
  /\ apis = <<>>
  /\ response = NoResponse
  /\ requests = <<>>
  /\ InitThreads
  /\ returned = NoReturn

\* tokens = parse_command_line(line)
ParseCommandLine ==
  /\ pc = "tok"
  /\ returned' = [called |-> TRUE, line |-> script[1], out |-> ParseCall(script[1], TRUE)]
  /\ pc' = "done"
  /\ UNCHANGED <<regVars, got, loadVars, idx, display, app, log, apiVars>>

NextTok == ParseCommandLine

SpecTok == InitTok /\ [][NextTok]_vars

\* the line is empty or only whitespace
IsBlankLine(line) == Strip(line) = <<>>

\* the line starts with the comment marker, as it is or once the directive
\* prefix is stripped
IsCommentLine(line) ==
  \/ StartsWith(line, <<"#">>)
  \/ StartsWith(line, MenuPrefix) /\ StartsWith(DropFirst(line, Len(MenuPrefix)), <<"#">>)

\* C18: parse_command_line returns the empty token sequence for every line
\* that is empty, only whitespace or starts with `#` (with or without the
\* directive prefix), and for every line it returns tokens and does not raise
C18_CommentAndEmptyLinesTokenizeEmpty ==
  returned.called =>
    /\ ~returned.out.raised
    /\ (IsBlankLine(returned.line) \/ IsCommentLine(returned.line)) =>
          returned.out.tokens = <<>>

\* a comment line with an open quote went through the tokenizer
C18_Witness ==
  /\ returned.called
  /\ IsCommentLine(returned.line)
  /\ returned.out.fell_back
  /\ ~returned.out.raised

(***************************************************************************)
(* The parameter specification: a parameter map is written as key=value    *)
(* tokens, tokens without '=' are put among them, and parse_parameters     *)
(* reads the token list                                                    *)
(***************************************************************************)
\* the largest number of pairs of a map of the parameter specification
MaxParams == 2

ParamKeys == {<<"a">>, <<"b">>, <<" ", "a">>, <<"a", "=", "b">>}

ParamValues == {<<>>, <<"1">>, <<"1", " ">>, <<"1", "=", "2">>, <<"\"", "1", "\"">>, <<"'">>}

PlainTokens == {<<>>, <<"x">>}

\* the pairs of a map in some order: no key twice
PairLists ==
  {ps \in SeqUpTo(ParamKeys \X ParamValues, MaxParams) :
     \A i, j \in 1..Len(ps) : i # j => ps[i][1] # ps[j][1]}

\* the map that holds the pairs
RECURSIVE MapOf(_)
MapOf(ps) ==
  IF ps = <<>> THEN <<>>
  ELSE DictSet(MapOf(SubSeq(ps, 1, Len(ps) - 1)), ps[Len(ps)][1], ps[Len(ps)][2])

\* each pair as the token key=value
TokensOfPairs(ps) == [i \in 1..Len(ps) |-> ps[i][1] \o <<"=">> \o ps[i][2]]

\* the token lists with extra put after the first n tokens
InsertAt(tokens, n, extra) ==
  SubSeq(tokens, 1, n) \o extra \o SubSeq(tokens, n + 1, Len(tokens))

InitParams ==
  /\ handlers = StartupHandlers
  /\ aliases = <<>>
  /\ registered = RegisteredBy(StartupHandlers)
  /\ got = NoCall
  /\ script = <<>>
  /\ line_num = 0
  /\ cmds = <<>>
  /\ pc = "params"
  /\ idx = 1
  /\ display = FALSE
  /\ app = NewApp
  /\ log = <<>>
  /\ apis = <<>>
  /\ response = NoResponse
  /\ requests = <<>>
  /\ InitThreads
  /\ returned = NoReturn

\* a map is written as tokens, with or without a token that has no '='
Serialize ==
  /\ pc = "params"
  /\ \E ps \in PairLists, n \in 0..MaxParams, extra \in {<<>>} \cup {<<t>> : t \in PlainTokens} :
       /\ n <= Len(ps)
       /\ returned' = [called |-> FALSE, map |-> MapOf(ps), pairs |-> TokensOfPairs(ps),
                       tokens |-> InsertAt(TokensOfPairs(ps), n, extra), params |-> <<>>]
  /\ pc' = "serialized"
  /\ UNCHANGED <<regVars, got, loadVars, idx, display, app, log, apiVars>>

\* params = parse_parameters(tokens)
ParseParameters ==
  /\ pc = "serialized"
  /\ returned' = [returned EXCEPT !.called = TRUE,
                                  !.params = parse_parameters(returned.tokens)]
  /\ pc' = "parsed"
  /\ UNCHANGED <<regVars, got, loadVars, idx, display, app, log, apiVars>>

NextParams == Serialize \/ ParseParameters

SpecParams == InitParams /\ [][NextParams]_vars

\* no value of the map has a '=' or a quote character
PlainValues(map) ==
  \A k \in DOMAIN map : \A i \in 1..Len(map[k]) : map[k][i] \notin Quotes \cup {"="}

\* no key of the map has a '=' or whitespace at an end
ParsedKeys(map) ==
  \A k \in DOMAIN map : Strip(k) = k /\ \A i \in 1..Len(k) : k[i] # "="

\* tokens without '=' do not change the result
PlainTokensIgnored == returned.params = parse_parameters(returned.pairs)

\* the text before the first '=' of a token is a key (once stripped), and the
\* last token of a key gives its value: the text after that '=' without
\* quotes at its ends
FirstEqSplits ==
  \A i \in 1..Len(returned.tokens) :
    LET t == returned.tokens[i] IN
    \A e \in 1..Len(t) :
      (t[e] = "=" /\ \A j \in 1..(e - 1) : t[j] # "=") =>
        LET key == Strip(SubSeq(t, 1, e - 1)) IN
        /\ key \in DOMAIN returned.params
        /\ (\A i2 \in (i + 1)..Len(returned.tokens) :
              LET t2 == returned.tokens[i2] IN
              \A e2 \in 1..Len(t2) :
                (t2[e2] = "=" /\ \A j \in 1..(e2 - 1) : t2[j] # "=") =>
                  Strip(SubSeq(t2, 1, e2 - 1)) # key)
           => returned.params[key] = StripChars(DropFirst(t, e), Quotes)

\* C19 as stated: every map whose values have no '=' and no quote character
\* comes back from parse_parameters equal to itself once written as key=value
\* tokens; tokens without '=' do not change the result; only the first '=' of
\* a token separates key from value
C19_RoundTripEveryMap ==
  returned.called =>
    /\ PlainValues(returned.map) => returned.params = returned.map
    /\ PlainTokensIgnored
    /\ FirstEqSplits

\* C19 amended: the same for the maps whose keys, too, have no '=' and no
\* whitespace at their ends
C19_RoundTrip ==
  returned.called =>
    /\ (PlainValues(returned.map) /\ ParsedKeys(returned.map)) =>
          returned.params = returned.map
    /\ PlainTokensIgnored
    /\ FirstEqSplits

\* a map of two pairs came back equal from a token list that had a token
\* without '=' among the pairs
C19_Witness ==
  /\ returned.called
  /\ PlainValues(returned.map) /\ ParsedKeys(returned.map)
  /\ Cardinality(DOMAIN returned.map) = MaxParams
  /\ Len(returned.tokens) > Len(returned.pairs)
  /\ returned.params = returned.map

(***************************************************************************)
(* Properties of call_api: the HTTP verbs                                  *)
(***************************************************************************)
\* C20: a call with the name of a configured API returns the invalid-method
\* failure exactly when its method, in upper case, is outside HTTP_METHODS,
\* and then makes no request; with a method inside HTTP_METHODS it hands
\* exactly one request with that method to the transport
C20_VerbAllowList ==
  (response.called /\ response.api_name \in DOMAIN apis) =>
    LET method == Upper(response.method)
        invalid == create_response_template(
                     FALSE, Message("INVALID_HTTP_METHOD", response.method), None, 400)
    IN /\ (response.result = invalid) <=> (method \notin HTTP_METHODS)
       /\ (method \notin HTTP_METHODS) => requests = <<>>
       /\ (method \in HTTP_METHODS) =>
             Len(requests) = 1 /\ requests[1].method = method

\* a call with the name of a configured API and the method `post` handed one
\* POST request to the transport
C20_Witness ==
  /\ response.called /\ response.api_name \in DOMAIN apis
  /\ response.method = <<"p", "o", "s", "t">>
  /\ Len(requests) = 1 /\ requests[1].method = Method.POST

(***************************************************************************)
(* Properties of call_api: the request body                                *)
(***************************************************************************)
\* the body of a request: the query parameters of a GET, the JSON body of a
\* POST or PUT
BodyOf(req) == IF req.method = Method.GET THEN req.params ELSE req.json

\* the template after substitution, as structured data when it parses and as
\* the substituted text otherwise
SubstitutedBody(data_template, context) ==
  LET text == format_string_with_context(data_template, context).text IN
  [kind |-> IF safe_json_loads(text) THEN "json" ELSE "text", value |-> text]

\* C21: a call for a configured API with a non-empty body template and a
\* method that carries a body (GET, POST, PUT) hands the transport the
\* substituted template, parsed when it parses, whatever the context map,
\* the empty map included; the body is never absent
C21_TemplateBecomesBody ==
  (/\ response.called
   /\ response.api_name \in DOMAIN apis
   /\ response.data_template # <<>>
   /\ Upper(response.method) \in {Method.GET, Method.POST, Method.PUT}) =>
    /\ Len(requests) = 1
    /\ BodyOf(requests[1]) # NoData
    /\ BodyOf(requests[1]) = SubstitutedBody(response.data_template, response.context)

\* a POST for a configured API with the template {v} and a context that has
\* v sent the substituted text as structured data
C21_Witness ==
  /\ response.called /\ response.api_name \in DOMAIN apis
  /\ response.method = <<"p", "o", "s", "t">>
  /\ response.data_template = <<"{", "v", "}">>
  /\ response.context # <<>>
  /\ Len(requests) = 1
  /\ requests[1].json = [kind |-> "json", value |-> <<"1">>]

(***************************************************************************)
(* Properties of handle_binding: the assignment form                       *)
(***************************************************************************)
\* the action is of the form target.attribute = expression
IsAssignment(action) ==
  LET a == Strip(action) IN
  /\ EqIndex(a) > 0
  /\ ~(Len(a) >= 2 /\ SubSeq(a, Len(a) - 1, Len(a)) = <<"(", ")">>)

\* C22: a call of handle_binding with an assignment whose expression the
\* evaluator answers with the null result (disallowed token, or evaluation
\* raised) leaves the text, value and content of every control as they were
C22_NullResultChangesNothing ==
  [][(/\ ~returned.called /\ returned'.called
      /\ IsAssignment(returned'.action)
      /\ BindingValue(app, Strip(returned'.action)).none)
       => app'.controls = app.controls]_vars

\* the assignment b.text = open has been processed with button b in place
C22_Witness ==
  /\ returned.called
  /\ returned.action = <<"b", ".">> \o Widget.text \o <<" ", "=", " ", "o", "p", "e", "n">>
  /\ <<"b">> \in DOMAIN app.controls
  /\ ~returned.raised /\ ~returned.caught

(***************************************************************************)
(* The popup geometry specification: the position and size cmd_popup_window *)
(* computes for a popup, for a main window as winfo reports it             *)
(***************************************************************************)
Min(a, b) == IF a < b THEN a ELSE b
Max(a, b) == IF a > b THEN a ELSE b

\* main-window positions and sizes, requested popup sizes and offsets
MainPositions == {0 - 2, 3}
MainSizes     == {1, 25}
PopupSizes    == {4, 30}
PopupOffsets  == {0 - 3, 2, 100}

\* one axis of the computation: the position is clamped with the requested
\* size, then a size larger than the main window is cut to the main size - 20
ConstrainAxis(main_pos, main_size, size, offset) ==
  [pos  |-> Min(Max(main_pos + offset, main_pos), main_pos + main_size - size),
   size |-> IF size > main_size THEN main_size - 20 ELSE size]

\* the geometry handed to popup.geometry(f"{width}x{height}+{popup_x}+{popup_y}");
\* Tk rejects a text with a negative width or height (TclError)
PopupGeometry(main, req, constrain_to_parent) ==
  LET h == IF constrain_to_parent
             THEN ConstrainAxis(main.x, main.width, req.width, req.offset_x)
             ELSE [pos |-> req.offset_x, size |-> req.width]
      v == IF constrain_to_parent
             THEN ConstrainAxis(main.y, main.height, req.height, req.offset_y)
             ELSE [pos |-> req.offset_y, size |-> req.height]
  IN [x |-> h.pos, y |-> v.pos, width |-> h.size, height |-> v.size,
      applied |-> h.size >= 0 /\ v.size >= 0]

InitGeometry ==
  /\ handlers = StartupHandlers
  /\ aliases = <<>>
  /\ registered = RegisteredBy(StartupHandlers)
  /\ got = NoCall
  /\ script = <<>>
  /\ line_num = 0
  /\ cmds = <<>>
  /\ pc = "geometry"
  /\ idx = 1
  /\ display = TRUE
  /\ app = cmd_window(NewApp, WinArgs, TRUE).app
  /\ log = <<>>
  /\ apis = <<>>
  /\ response = NoResponse
  /\ requests = <<>>
  /\ InitThreads
  /\ \E mx \in MainPositions, my \in MainPositions, mw \in MainSizes, mh \in MainSizes,
        w \in PopupSizes, h \in PopupSizes, ox \in PopupOffsets, oy \in PopupOffsets,
        c \in BOOLEAN :
       returned = [called |-> FALSE,
                   main |-> [x |-> mx, y |-> my, width |-> mw, height |-> mh],
                   req |-> [width |-> w, height |-> h, offset_x |-> ox, offset_y |-> oy],
                   constrain_to_parent |-> c]

\* popup-window computes the geometry and hands it to the toolkit
ApplyGeometry ==
  /\ pc = "geometry" /\ ~returned.called
  /\ returned' = [called |-> TRUE, main |-> returned.main, req |-> returned.req,
                  constrain_to_parent |-> returned.constrain_to_parent,
                  geometry |-> PopupGeometry(returned.main, returned.req,
                                             returned.constrain_to_parent)]
  /\ pc' = "done"
  /\ UNCHANGED <<regVars, got, loadVars, idx, display, app, log, apiVars>>

NextGeometry == ApplyGeometry

SpecGeometry == InitGeometry /\ [][NextGeometry]_vars

\* C23: with constrain_to_parent the geometry applied lies inside the main
\* window on both axes and has a positive width and height
C23_PopupInsideMain ==
  (returned.called /\ returned.constrain_to_parent /\ returned.geometry.applied) =>
    LET g == returned.geometry
        m == returned.main
    IN /\ m.x <= g.x /\ g.x + g.width <= m.x + m.width
       /\ m.y <= g.y /\ g.y + g.height <= m.y + m.height
       /\ g.width > 0 /\ g.height > 0

\* a constrained popup smaller than the main window was moved back inside it
C23_Witness ==
  /\ returned.called /\ returned.constrain_to_parent /\ returned.geometry.applied
  /\ returned.req.width < returned.main.width
  /\ returned.req.height < returned.main.height
  /\ returned.req.offset_x > returned.main.width
  /\ returned.geometry.x + returned.geometry.width = returned.main.x + returned.main.width

(***************************************************************************)
(* The fallback specification: FlexibleAPIManager.call_api_with_fallback   *)
(* (api_fixes.py) on a registry that add_api and remove_api change         *)
(***************************************************************************)
FallbackSuffix == <<"_", "f", "a", "l", "l", "b", "a", "c", "k">>

FallbackUrls == {<<>>, Scheme.http \o <<"f">>}

\* call_api_with_fallback: call_api returns a failure response for every
\* failure of the request and raises only before its try block, when method
\* is no string (validate_http_method calls method.upper()); then the
\* except branch registers the fallback entry, and its own call_api raises
\* for the same reason, before the original configuration is put back
call_api_with_fallback(as, api_name, method_is_str, method, path, fallback_url, net) ==
  IF method_is_str
    THEN LET r == call_api(as, api_name, method, path, <<>>, <<>>, net)
         IN [apis |-> as, result |-> r.result, sent |-> r.sent, raised |-> FALSE]
  ELSE IF fallback_url = <<>>
    THEN [apis |-> as, result |-> NoResponse.result, sent |-> <<>>, raised |-> TRUE]
  ELSE [apis   |-> add_api(as, api_name \o FallbackSuffix, fallback_url, <<>>),
        result |-> NoResponse.result, sent |-> <<>>, raised |-> TRUE]

\* the client calls call_api_with_fallback and holds what it gave
CallApiWithFallback ==
  /\ pc = "api" /\ ~response.called
  /\ \E api_name \in ApiNames, method_is_str \in BOOLEAN,
        method \in {Method.GET, Method.PATCH, <<"F", "E", "T", "C", "H">>},
        path \in CallPaths, fallback_url \in FallbackUrls, net \in NetOutcomes :
       LET r == call_api_with_fallback(apis, api_name, method_is_str, method, path,
                                       fallback_url, net)
       IN /\ response' = [called |-> TRUE, api_name |-> api_name, method |-> method,
                          data_template |-> <<>>, context |-> <<>>, result |-> r.result,
                          method_is_str |-> method_is_str, path |-> path,
                          fallback_url |-> fallback_url, net |-> net,
                          raised |-> r.raised, before |-> apis]
          /\ requests' = r.sent
          /\ apis' = r.apis
  /\ UNCHANGED <<regVars, got, returned, loadVars, pc, idx, display, app, log, thrVars>>

NextFallback == AddApi \/ RemoveApi \/ CallApiWithFallback \/ CallDone

SpecFallback == InitApi /\ [][NextFallback]_vars

\* the primary call of the held response failed: it reached the transport,
\* which answered with an error status or a connection error
PrimaryFailed ==
  /\ response.called /\ response.method_is_str
  /\ response.api_name \in DOMAIN response.before
  /\ response.method = Method.GET
  /\ response.net # "ok"

\* C24: with a fallback_url, a failed primary call is followed by one request
\* to the fallback URL, and the entry of api_name is the same after the call
\* as before it
C24_FallbackRetry ==
  (PrimaryFailed /\ response.fallback_url # <<>>) =>
    /\ ~response.raised
    /\ Len(requests) = 2
    /\ requests[2].url = join_url_path(ensure_url_scheme(response.fallback_url), response.path)
    /\ response.api_name \in DOMAIN apis
    /\ apis[response.api_name] = response.before[response.api_name]

\* a primary call with a fallback_url failed at the transport and
\* call_api_with_fallback has returned
C24_Witness ==
  /\ PrimaryFailed /\ response.fallback_url # <<>>
  /\ response.net = "ConnectionError"
  /\ ~response.raised
  /\ ~response.result.success

(***************************************************************************)
(* The snapshot specification: one thread runs call_api statement by       *)
(* statement while another configures, removes and re-keys APIs            *)
(***************************************************************************)

\* the keys of the clients: one without a scheme, one of each scheme
SnapshotKeys == {<<"k">>, AuthScheme.Bearer \o <<"t">>, AuthScheme.Basic \o <<"b">>}

\* the base URL the other thread configures
SnapshotUrls == {Scheme.http \o <<"h">>}

\* call_api is not running.  api_config is the dictionary get_api returned
\* and shared whether self.apis still holds that very dictionary; seen is
\* the values its key has had since get_api returned it
NoSnapshot ==
  [called |-> FALSE, at |-> "idle", api_name |-> <<>>, path |-> <<>>,
   api_config |-> <<>>, shared |-> FALSE, seen |-> {},
   full_url |-> <<>>, authorization |-> <<>>]

InitSnapshot ==
  /\ handlers = StartupHandlers
  /\ aliases = <<>>
  /\ registered = RegisteredBy(StartupHandlers)
  /\ got = NoCall
  /\ script = <<>>
  /\ line_num = 0
  /\ cmds = <<>>
  /\ pc = "snapshot"
  /\ idx = 1
  /\ display = FALSE
  /\ app = NewApp
  /\ log = <<>>
  /\ apis = <<>>
  /\ response = NoResponse
  /\ requests = <<>>
  /\ InitThreads
  /\ returned = NoSnapshot

\* the other thread: add_api(name, url, key) stores a new dictionary
SnapshotAddApi ==
  /\ pc = "snapshot"
  /\ \E name \in ApiNames, url \in SnapshotUrls, key \in ApiKeys \cup SnapshotKeys :
       /\ apis' = add_api(apis, name, url, key)
       /\ returned' = IF name = returned.api_name THEN [returned EXCEPT !.shared = FALSE]
                      ELSE returned
  /\ UNCHANGED <<regVars, got, loadVars, pc, idx, display, app, log, response, requests, thrVars>>

\* the other thread: remove_api(name)
SnapshotRemoveApi ==
  /\ pc = "snapshot"
  /\ \E name \in ApiNames :
       /\ apis' = remove_api(apis, name)
       /\ returned' = IF name = returned.api_name THEN [returned EXCEPT !.shared = FALSE]
                      ELSE returned
  /\ UNCHANGED <<regVars, got, loadVars, pc, idx, display, app, log, response, requests, thrVars>>

\* the other thread: update_api_auth(api_name, key=key) assigns into the
\* stored dictionary, which is the one call_api holds while it is shared
SnapshotUpdateApiAuth ==
  /\ pc = "snapshot"
  /\ \E api_name \in ApiNames, key \in SnapshotKeys :
       /\ apis' = update_api_auth(apis, api_name, key)
       /\ returned' = IF api_name = returned.api_name /\ returned.shared
                        THEN [returned EXCEPT !.api_config.key = key, !.seen = @ \cup {key}]
                      ELSE returned
  /\ UNCHANGED <<regVars, got, loadVars, pc, idx, display, app, log, response, requests, thrVars>>

\* call_api up to api_config = self.get_api(api_name), the method being GET:
\* an unknown name ends the call with the not-found response
SnapshotGetApi ==
  /\ pc = "snapshot" /\ returned.at = "idle"
  /\ \E api_name \in ApiNames, path \in CallPaths :
       IF api_name \in DOMAIN apis
         THEN /\ returned' = [NoSnapshot EXCEPT !.at = "url", !.api_name = api_name,
                                               !.path = path,
                                               !.api_config = apis[api_name], !.shared = TRUE,
                                               !.seen = {apis[api_name].key}]
              /\ UNCHANGED response
         ELSE /\ returned' = [NoSnapshot EXCEPT !.called = TRUE, !.at = "done",
                                               !.api_name = api_name, !.path = path]
              /\ response' = [NoResponse EXCEPT !.called = TRUE, !.api_name = api_name,
                                !.method = Method.GET,
                                !.result = create_response_template(
                                             FALSE, Message("API_NOT_FOUND", api_name), None, 404)]
  /\ UNCHANGED <<regVars, got, loadVars, pc, idx, display, app, log, apis, requests, thrVars>>

\* a statement of call_api that only moves on or assigns a local
SnapshotStep(from, new) ==
  /\ pc = "snapshot" /\ returned.at = from
  /\ returned' = new
  /\ UNCHANGED <<regVars, got, loadVars, pc, idx, display, app, log, apis, response, requests, thrVars>>

\* full_url = join_url_path(api_config['url'], path)
SnapshotFullUrl ==
  /\ returned.at = "url"
  /\ SnapshotStep("url", [returned EXCEPT !.at = "key",
                            !.full_url = join_url_path(returned.api_config.url, returned.path)])

\* if api_config['key']:
SnapshotIfKey ==
  /\ returned.at = "key"
  /\ SnapshotStep("key", [returned EXCEPT !.at = IF returned.api_config.key # <<>>
                                                   THEN "bearer" ELSE "request"])

\* if api_config['key'].startswith('Bearer '):
SnapshotIfBearer ==
  /\ returned.at = "bearer"
  /\ SnapshotStep("bearer", [returned EXCEPT !.at = IF StartsWith(returned.api_config.key, AuthScheme.Bearer)
                                                      THEN "bearer_key" ELSE "basic"])

\* elif api_config['key'].startswith('Basic '):
SnapshotIfBasic ==
  /\ returned.at = "basic"
  /\ SnapshotStep("basic", [returned EXCEPT !.at = IF StartsWith(returned.api_config.key, AuthScheme.Basic)
                                                     THEN "basic_key" ELSE "prefix"])

\* headers['Authorization'] = api_config['key'], in either branch
SnapshotKeyAsHeader ==
  /\ returned.at \in {"bearer_key", "basic_key"}
  /\ SnapshotStep(returned.at, [returned EXCEPT !.at = "request",
                                  !.authorization = returned.api_config.key])

\* headers['Authorization'] = f"Bearer {api_config['key']}"
SnapshotPrefixedHeader ==
  /\ returned.at = "prefix"
  /\ SnapshotStep("prefix", [returned EXCEPT !.at = "request",
                               !.authorization = AuthScheme.Bearer \o returned.api_config.key])

\* response = self._make_request(...) and the return of call_api
SnapshotRequest ==
  /\ pc = "snapshot" /\ returned.at = "request"
  /\ \E net \in NetOutcomes :
       LET r == _make_request(Method.GET, returned.full_url, returned.authorization, NoData, net)
       IN /\ requests' = r.sent
          /\ response' = [NoResponse EXCEPT !.called = TRUE, !.api_name = returned.api_name,
                            !.method = Method.GET,
                            !.result = IF r.outcome = "ok" THEN _process_response(200)
                                       ELSE create_response_template(
                                              FALSE, Message("API_REQUEST_FAILED", <<r.outcome>>),
                                              None, 500)]
  /\ returned' = [returned EXCEPT !.called = TRUE, !.at = "done"]
  /\ UNCHANGED <<regVars, got, loadVars, pc, idx, display, app, log, apis, thrVars>>

\* the caller is done with the response and goes on to its next call
SnapshotDone ==
  /\ pc = "snapshot" /\ returned.at = "done"
  /\ returned' = NoSnapshot
  /\ response' = NoResponse
  /\ requests' = <<>>
  /\ UNCHANGED <<regVars, got, loadVars, pc, idx, display, app, log, apis, thrVars>>

NextSnapshot ==
  \/ SnapshotAddApi \/ SnapshotRemoveApi \/ SnapshotUpdateApiAuth
  \/ SnapshotGetApi \/ SnapshotFullUrl \/ SnapshotIfKey \/ SnapshotIfBearer
  \/ SnapshotIfBasic \/ SnapshotKeyAsHeader \/ SnapshotPrefixedHeader
  \/ SnapshotRequest \/ SnapshotDone

SpecSnapshot == InitSnapshot /\ [][NextSnapshot]_vars

\* call_api has sent its request
RequestSent == returned.at = "done" /\ Len(requests) = 1

\* C25 (as claimed): the request call_api sent while the other thread
\* configured and re-keyed APIs.  Its URL is the stored URL joined with the
\* path, its Authorization header is the one of a single value the key of the
\* entry had during the call, and a header that is sent carries a scheme
C25_ConsistentSnapshot ==
  RequestSent =>
    /\ requests[1].url = join_url_path(returned.api_config.url, returned.path)
    /\ requests[1].authorization \in {Authorization(k) : k \in returned.seen}
    /\ \/ requests[1].authorization = <<>>
       \/ StartsWith(requests[1].authorization, AuthScheme.Bearer)
       \/ StartsWith(requests[1].authorization, AuthScheme.Basic)

\* a request was sent by a call during which update_api_auth gave the entry
\* another key
C25_Witness ==
  /\ RequestSent
  /\ Cardinality(returned.seen) > 1
  /\ returned.shared


(***************************************************************************)
(* The click-order specification: every click of the button starts a       *)
(* thread of its own, so several calls are in flight at a time             *)
(***************************************************************************)
MaxClicks == 2

\* no click yet; calls[i] is the thread the i-th click started
NoClicks == [called |-> FALSE, calls |-> <<>>]

InitOrder ==
  /\ handlers = StartupHandlers
  /\ aliases = <<>>
  /\ registered = RegisteredBy(StartupHandlers)
  /\ got = NoCall
  /\ script = <<>>
  /\ line_num = 0
  /\ cmds = <<>>
  /\ pc = "run"
  /\ idx = 1
  /\ display \in BOOLEAN
  /\ \E args \in ApiCallArgs, later_fails \in BOOLEAN : app = BuiltApp(display, args, later_fails)
  /\ log = <<>>
  /\ apis \in {<<>>, add_api(<<>>, Word.svc, <<"h">>, <<>>)}
  /\ response = NoResponse
  /\ requests = <<>>
  /\ InitThreads
  /\ returned = NoClicks

\* the user clicks the button: on_click snapshots the controls that have a
\* get() and starts a new thread on call_api_task
OrderClick ==
  /\ pc = "mainloop"
  /\ Len(returned.calls) < MaxClicks
  /\ \E btn \in DOMAIN app.controls :
       LET cb  == app.controls[btn].command
           ctx == [n \in {m \in DOMAIN app.controls : app.controls[m].class = "Entry"} |->
                     app.controls[n].value]
       IN /\ cb.kind = "api_call"
          /\ returned' = [called |-> TRUE,
                          calls |-> Append(returned.calls,
                            [at |-> "call_api",
                             args |-> [api_name |-> cb.templates[1], method |-> cb.templates[2],
                                       path |-> cb.templates[3], data_template |-> cb.templates[4],
                                       ctx |-> ctx, target |-> cb.action],
                             ret |-> <<>>])]
  /\ accesses' = UiAcc("MainThread", {"app", "widget"}, "read")
  /\ UNCHANGED <<regVars, got, loadVars, pc, idx, display, app, log, apis, response, requests,
                 _lock, threads, after_queue>>

\* call_api_task of the i-th click: result = api_manager.call_api(...)
OrderCallApiTask ==
  /\ pc \in {"mainloop", "done"}
  /\ \E i \in DOMAIN returned.calls, net \in NetOutcomes :
       LET c == returned.calls[i].args
           r == call_api(apis, c.api_name, c.method, c.path, c.data_template, c.ctx, net)
       IN /\ returned.calls[i].at = "call_api"
          /\ returned' = [returned EXCEPT !.calls[i].at = "deliver", !.calls[i].ret = <<r.result>>]
          /\ requests' = r.sent
  /\ accesses' = {}
  /\ UNCHANGED <<regVars, got, loadVars, pc, idx, display, app, log, apis, response,
                 _lock, threads, after_queue>>

\* call_api_task of the i-th click: update_ui is given to root.after, or
\* called here when there is no root
OrderMarshal ==
  /\ pc \in {"mainloop", "done"}
  /\ \E i \in DOMAIN returned.calls :
       LET c      == returned.calls[i].args
           result == returned.calls[i].ret[1]
       IN /\ returned.calls[i].at = "deliver"
          /\ returned' = [returned EXCEPT !.calls[i].at = "done"]
          /\ IF Marshals(app)
               THEN /\ after_queue' = IF pc = "mainloop"
                                        THEN Append(after_queue, [target |-> c.target, result |-> result])
                                        ELSE after_queue
                    /\ accesses' = {}
                    /\ app' = app
               ELSE /\ app' = update_ui(app, c.target, result)
                    /\ accesses' = {}
                    /\ after_queue' = after_queue
  /\ UNCHANGED <<regVars, got, loadVars, pc, idx, display, log, apis, response, requests, _lock, threads>>

NextOrder == Run \/ TypeValue \/ OrderClick \/ OrderCallApiTask \/ OrderMarshal \/ UpdateUi \/ Close

SpecOrder == InitOrder /\ [][NextOrder]_vars

\* the text of the button is the redirect target, the button was clicked at
\* least twice, every call has completed and every update has run
AllUpdatesRun ==
  /\ pc = "mainloop"
  /\ Len(returned.calls) >= 2
  /\ \A i \in DOMAIN returned.calls :
       /\ returned.calls[i].at = "done"
       /\ returned.calls[i].args.target = <<"b", ".">> \o Widget.text
  /\ after_queue = <<>>

\* C26 (as claimed): the button was clicked twice and both updates have run
\* on the thread of the event loop.  The target shows the result of the
\* call the last click started
C26_ResultsInClickOrder ==
  AllUpdatesRun =>
    app.controls[<<"b">>].text =
      StrOfResult(returned.calls[Len(returned.calls)].ret[1])

\* both updates have run and the two calls had different results
C26_Witness ==
  /\ AllUpdatesRun
  /\ returned.calls[1].ret # returned.calls[2].ret


\* C27 (as claimed): removal makes a verb unresolvable.  In every registry
\* state, a name has_command reports is one get returns a handler for; and
\* after a remove_command(name) that returned True, get(name) returns None
\* and has_command(name) returns False
C27_RemovalMakesUnresolvable ==
  /\ [](\A n \in RegNames :
          has_command(handlers, aliases, n) => get(handlers, aliases, n) # None)
  /\ [][\A name \in RegNames :
          LET r == remove_command(handlers, aliases, name) IN
          (/\ pc = "registry" /\ ~got.called
           /\ r.result
           /\ handlers' = r.handlers
           /\ aliases' = r.aliases)
          => /\ get(handlers', aliases', name) = None
             /\ ~has_command(handlers', aliases', name)]_vars

\* a client has looked up a name has_command reports and got None
C27_Witness ==
  /\ got.called
  /\ has_command(handlers, aliases, got.name)
  /\ got.result = None


(***************************************************************************)
(* The click-binding specification: build_ui on scripts that name button b *)
(* in api-call and exec instructions                                       *)
(***************************************************************************)
V_api_call == <<"a", "p", "i", "-", "c", "a", "l", "l">>

\* two api-call instructions for button b that differ in their path, the
\* second in capitals
ApiCallLine ==
  [x |-> JoinSp(<<Word.menu, V_api_call, <<"b">>, Word.svc, Method.GET, <<"/", "x">>>>),
   y |-> JoinSp(<<Word.menu, Upper(V_api_call), <<"b">>, Word.svc, Method.GET, <<"/", "y">>>>)]

\* the lines after the window and the button: the two api-call instructions,
\* an exec instruction for b, a binding and a popup
ClickLines ==
  {ApiCallLine.x, ApiCallLine.y, Line.exec, Line.bind_click, Line.popup_window}

\* the longest script body of the click-binding specification, in lines
MaxClickLines == 3

ClickScripts == {<<Line.win, Line.ctrl>> \o b : b \in SeqUpTo(ClickLines, MaxClickLines)}

InitClick ==
  /\ handlers = StartupHandlers
  /\ aliases = <<>>
  /\ registered = RegisteredBy(StartupHandlers)
  /\ got = NoCall
  /\ script \in ClickScripts
  /\ line_num = Len(script)
  /\ cmds = load_script(script)
  /\ pc = "basic"
  /\ idx = 1
  /\ display \in BOOLEAN
  /\ app = NewApp
  /\ log = <<>>
  /\ apis = <<>>
  /\ response = NoResponse
  /\ requests = <<>>
  /\ InitThreads
  /\ returned = NoReturn

SpecClick == InitClick /\ [][Next]_vars

\* the lines of the script that are api-call instructions for button btn
ApiCallLinesFor(btn) ==
  {i \in 1..Len(script) :
     LET toks == parse_command_line(script[i]) IN
     /\ Len(toks) >= 2
     /\ Lower(toks[1]) = V_api_call
     /\ toks[2] = btn}

\* C28 (as claimed): one click action per button, the last binder wins.
\* After build_ui, a button named by an api-call and by an exec instruction
\* carries the exec callback; a button carries an api-call binding only when
\* exec_map has no entry for it; and a button named by api-call instructions
\* only carries the binding of the last of them in script order
C28_LastBinderWins ==
  pc = "done" =>
    \A btn \in DOMAIN app.controls :
      app.controls[btn].class = "Button" =>
        LET named == ApiCallLinesFor(btn)
            last  == CHOOSE i \in named : \A j \in named : j <= i
        IN /\ (named # {} /\ ExecIndex(app.exec_map, btn) # 0)
                => app.controls[btn].command.kind = "exec"
           /\ app.controls[btn].command.kind = "api_call"
                => ExecIndex(app.exec_map, btn) = 0
           /\ (named # {} /\ ExecIndex(app.exec_map, btn) = 0)
                => app.controls[btn].command =
                     handle_api_call(app, Tail(parse_command_line(script[last])))
                       .app.controls[btn].command

\* build_ui is over on a script with two api-call instructions for button b
\* and no exec instruction
C28_Witness ==
  /\ pc = "done"
  /\ <<"b">> \in DOMAIN app.controls
  /\ app.controls[<<"b">>].class = "Button"
  /\ Cardinality(ApiCallLinesFor(<<"b">>)) >= 2
  /\ ExecIndex(app.exec_map, <<"b">>) = 0


(***************************************************************************)
(* The popup specification: build_ui on scripts that open, use and close   *)
(* popup p                                                                 *)
(***************************************************************************)
V_popup_close == <<"p", "o", "p", "u", "p", "-", "c", "l", "o", "s", "e">>
V_clear       == <<"c", "l", "e", "a", "r">>

\* the lines after the window and the button: popup p is opened, sent from
\* and closed, the state is cleared, and an exec and an event binding
PopupLines ==
  {Line.popup_window, Line.popup_send, JoinSp(<<Word.menu, V_popup_close, <<"p">>>>),
   JoinSp(<<Word.menu, V_clear>>), Line.exec, Line.bind_click}

\* the longest script body of the popup specification, in lines
MaxPopupLines == 3

PopupScripts == {<<Line.win, Line.ctrl>> \o b : b \in SeqUpTo(PopupLines, MaxPopupLines)}

InitPopups ==
  /\ handlers = StartupHandlers
  /\ aliases = <<>>
  /\ registered = RegisteredBy(StartupHandlers)
  /\ got = NoCall
  /\ script \in PopupScripts
  /\ line_num = Len(script)
  /\ cmds = load_script(script)
  /\ pc = "basic"
  /\ idx = 1
  /\ display \in BOOLEAN
  /\ app = NewApp
  /\ log = <<>>
  /\ apis = <<>>
  /\ response = NoResponse
  /\ requests = <<>>
  /\ InitThreads
  /\ returned = NoReturn

SpecPopups == InitPopups /\ [][Next]_vars

\* the step runs a well-formed popup-send-data or popup-close instruction
\* for popup name
ClosesPopup(name) ==
  \/ /\ pc = "popup-send-data"
     /\ LET group == PopupGroup(cmds, V_popup_send_data) IN
        /\ idx <= Len(group)
        /\ Len(cmds[group[idx]]) = 4
        /\ cmds[group[idx]][2] = name
     /\ idx' = idx + 1
  \/ /\ pc = "basic"
     /\ idx <= Len(cmds)
     /\ Lower(cmds[idx][1]) = V_popup_close
     /\ Len(cmds[idx]) = 2
     /\ cmds[idx][2] = name
     /\ idx' = idx + 1

\* C29 (as claimed): the popup bookkeeping.  Between instructions, every
\* popup window that exists is stored in popup_windows under a name and every
\* name of popup_windows refers to a popup window that exists; and after
\* popup-send-data P or popup-close P, P is no name of popup_windows
C29_PopupBookkeeping ==
  /\ [](/\ \A w \in app.toplevels :
             \E name \in DOMAIN app.popup_windows : app.popup_windows[name] = w
        /\ \A name \in DOMAIN app.popup_windows :
             app.popup_windows[name] \in app.toplevels)
  /\ [][\A name \in {<<"p">>} :
          ClosesPopup(name) => name \notin DOMAIN app'.popup_windows]_vars

\* popup p has been opened and then closed by popup-send-data
C29_Witness ==
  /\ pc = "bind_exec"
  /\ app.created > 0
  /\ <<"p">> \notin DOMAIN app.popup_windows
  /\ \E j \in 1..Len(log) : log[j].func = "cmd_popup_send_data" /\ ~log[j].raised


(***************************************************************************)
(* The language specification: build_ui on scripts that select a language  *)
(* and display translated text on button b                                 *)
(***************************************************************************)
V_set_language == <<"U8A2D", "U5B9A", "U8A9E", "U8A00">>
V_display_text == <<"U986F", "U793A", "U6587", "U5B57">>

SetLanguageLine(code) ==
  JoinSp(<<Word.menu, <<"s", "e", "t", "-", "l", "a", "n", "g", "u", "a", "g", "e">>, code>>)

DisplayTextLine(key) ==
  JoinSp(<<Word.menu, <<"d", "i", "s", "p", "l", "a", "y", "-", "t", "e", "x", "t">>, key, <<"b">>>>)

\* the lines after the window and the button: English and the default
\* language are selected, and a code that is not supported; a key with
\* translations and one without are displayed; an exec, a binding, a popup
LanguageLines ==
  {SetLanguageLine(SUPPORTED_LANGUAGES.EN), SetLanguageLine(SUPPORTED_LANGUAGES.ZH_TW),
   SetLanguageLine(<<"x", "x">>),
   DisplayTextLine(<<"r", "e", "a", "d", "y">>), DisplayTextLine(<<"n", "o">>),
   Line.exec, Line.bind_click, Line.popup_window}

\* the longest script body of the language specification, in lines
MaxLanguageLines == 3

LanguageScripts ==
  {<<Line.win, Line.ctrl>> \o b : b \in SeqUpTo(LanguageLines, MaxLanguageLines)}

InitLanguage ==
  /\ handlers = StartupHandlers
  /\ aliases = <<>>
  /\ registered = RegisteredBy(StartupHandlers)
  /\ got = NoCall
  /\ script \in LanguageScripts
  /\ line_num = Len(script)
  /\ cmds = load_script(script)
  /\ pc = "basic"
  /\ idx = 1
  /\ display \in BOOLEAN
  /\ app = NewApp
  /\ log = <<>>
  /\ apis = <<>>
  /\ response = NoResponse
  /\ requests = <<>>
  /\ InitThreads
  /\ returned = NoReturn

SpecLanguage == InitLanguage /\ [][Next]_vars

\* the set-language instructions before instruction i that succeeded
SucceededBefore(i) ==
  {j \in 1..(i - 1) :
     /\ cmds[j][1] = V_set_language
     /\ Len(cmds[j]) = 2
     /\ cmds[j][2] \in DOMAIN translations}

\* the step runs instruction idx of phase 1, whose verb is verb
RunsVerb(verb) ==
  /\ pc = "basic"
  /\ idx <= Len(cmds)
  /\ cmds[idx][1] = verb
  /\ idx' = idx + 1

\* C30 (as claimed): language selection takes effect on displayed text.  A
\* display-text instruction that runs after a set-language instruction has
\* succeeded, for a key that has a translation in the language L of the
\* latest one that succeeded, shows the translation in L; and a set-language
\* instruction with an unsupported code leaves the language unchanged
C30_LanguageTakesEffect ==
  [][/\ (/\ RunsVerb(V_display_text)
         /\ Len(cmds[idx]) >= 3
         /\ cmds[idx][3] \in DOMAIN app.controls
         /\ SucceededBefore(idx) # {})
        => LET last == CHOOSE j \in SucceededBefore(idx) :
                         \A k \in SucceededBefore(idx) : k <= j
               L    == cmds[last][2]
               key  == cmds[idx][2]
           IN key \in DOMAIN translations[L]
                => app'.controls[cmds[idx][3]].text = translations[L][key]
     /\ (/\ RunsVerb(V_set_language)
         /\ Len(cmds[idx]) = 2
         /\ cmds[idx][2] \notin DOMAIN translations)
        => app'.language = app.language]_vars

\* a display-text instruction for a key with translations has run on button
\* b after set-language en succeeded
C30_Witness ==
  /\ pc = "basic"
  /\ idx > 1
  /\ cmds[idx - 1][1] = V_display_text
  /\ cmds[idx - 1][2] \in DOMAIN translations[SUPPORTED_LANGUAGES.EN]
  /\ <<"b">> \in DOMAIN app.controls
  /\ SucceededBefore(idx - 1) # {}
  /\ app.language = SUPPORTED_LANGUAGES.EN

====
